---- MODULE Spec2Model ----
(***************************************************************************)
(* flowebb-go: the tide prediction cache (in-process LRU over a DynamoDB   *)
(* table) and the date-range orchestrator of the tide service.             *)
(*                                                                         *)
(* Time is counted in ticks since the Unix epoch (TicksPerSecond ticks to  *)
(* a second), so that time.Truncate(time.Second) and time.Unix() are not   *)
(* the identity.  A calendar date "YYYY-MM-DD" is the number of the day    *)
(* since the epoch; a wall-clock string "YYYY-MM-DDTHH:MM:SS" is the       *)
(* number of ticks the wall clock shows since the epoch's midnight.        *)
(***************************************************************************)
EXTENDS Integers, Sequences, FiniteSets, TLC

\* ------------------------------------------------------------------ bounds
TicksPerSecond == 2
LRUSize == 2
BatchSize == 2
MaxBatchRetries == 2
MaxFaults == 1
MaxCalls == 3
MaxPreseeds == 1

\* ------------------------------------------------------ program constants
LRUTTLMinutes == 15
DynamoTTLDays == 2
cacheValidityDays == 7
MaxRangeDays == 5

Second == TicksPerSecond
Minute == 60 * Second
Hour == 60 * Minute
Day == 24 * Hour

\* config.CacheConfig.GetLRUTTL / GetDynamoTTL (the latter in seconds)
GetLRUTTL == LRUTTLMinutes * Minute
GetDynamoTTLSeconds == DynamoTTLDays * 24 * 60 * 60

Nil == [nil |-> TRUE]
\* what a caller writes into a value it was handed
Scribble == "overwritten"
NoErr == "none"
\* the errors of the remote tier
ErrGet == "getting predictions from DynamoDB"
ErrPut == "putting predictions in DynamoDB"
ErrInvalid == "invalid prediction record"
ErrBatch == "batch writing predictions"

\* ------------------------------------------------------------ time helpers
\* time.Time.Unix(): whole seconds
Unix(t) == t \div TicksPerSecond
\* time.Time.Truncate(time.Second)
TruncSecond(t) == t - (t % TicksPerSecond)
\* time.Time.Truncate(24*time.Hour): rounds down to a multiple of 24h since
\* the zero time, which is a UTC midnight whatever the time's location
TruncDay(t) == t - (t % Day)
\* t.In(location).Format("2006-01-02") for a fixed zone of off seconds
FormatDate(t, off) == (t + off * Second) \div Day
\* time.ParseInLocation("2006-01-02T15:04:05", s, location): the instant at
\* which the location's wall clock shows s
ParseInLocation(wall, off) == wall - off * Second
\* formatLocalTime: the wall clock of the location at instant ts, to the second
formatLocalTime(ts, off) == TruncSecond(ts) + off * Second

\* ---------------------------------------------------------------- records
\* models.TidePrediction.Validate / models.TideExtreme.Validate: LocalTime is
\* parsed without a location (UTC) and must lie within 24 hours of Timestamp
AbsDiff(a, b) == IF a >= b THEN a - b ELSE b - a
PredictionValid(p) == /\ p.t > 0
                      /\ AbsDiff(p.wall, p.t) <= Day
ExtremeValid(e) == /\ e.t > 0
                   /\ e.type \in {"RISING", "FALLING", "HIGH", "LOW"}
                   /\ AbsDiff(e.wall, e.t) <= Day

\* models.TidePredictionRecord.Validate
Validate(r) == /\ r.stationID # ""
               /\ r.date \in Nat
               /\ r.stationType \in {"R", "S"}
               /\ \A i \in 1..Len(r.predictions) : PredictionValid(r.predictions[i])
               /\ \A i \in 1..Len(r.extremes) : ExtremeValid(r.extremes[i])

\* getCacheKey: "{stationID}:{date}"
getCacheKey(stationID, date) == <<stationID, date>>

\* -------------------------------------------------- hashicorp/golang-lru
\* The cache is a sequence of entries, most recently used first.
LruIndex(l, k) == IF \E i \in 1..Len(l) : l[i].key = k
                  THEN CHOOSE i \in 1..Len(l) : l[i].key = k
                  ELSE 0
LruContains(l, k) == LruIndex(l, k) # 0
LruPeek(l, k) == l[LruIndex(l, k)]
LruWithout(l, k) == SelectSeq(l, LAMBDA e : e.key # k)
\* Cache.Get: a found entry becomes the most recently used
LruGet(l, k) == IF LruContains(l, k) THEN <<LruPeek(l, k)>> \o LruWithout(l, k) ELSE l
\* Cache.Add: insert or update at the front, evict the oldest beyond size
LruAdd(l, e) == LET m == <<e>> \o LruWithout(l, e.key)
                IN  IF Len(m) > LRUSize THEN SubSeq(m, 1, LRUSize) ELSE m
\* (a Remove that leaves the entry in place)
LruKeep(l, k) == l
\* Cache.Remove
LruRemove(l, k) == LruWithout(l, k)

\* ------------------------------------------- DynamoPredictionCache (remote)
\* The table is a function from (stationId, date) to the stored item.
DynamoKey(r) == <<r.stationID, r.date>>

\* (a validity test that still serves the item in the second of its TTL)
isValidInclusive(record, t) == Unix(t) <= record.ttl
\* DynamoPredictionCache.isValid
isValid(record, t) == Unix(t) < record.ttl

\* DynamoPredictionCache.GetPredictions; getOut is the outcome of GetItem
DynamoGetPredictions(d, stationID, date, t, getOut) ==
    LET key == <<stationID, date>>
    IN  IF getOut = "err" THEN [rec |-> Nil, err |-> ErrGet]
        ELSE IF key \notin DOMAIN d THEN [rec |-> Nil, err |-> NoErr]
        ELSE IF ~isValid(d[key], t) THEN [rec |-> Nil, err |-> NoErr]
        ELSE [rec |-> d[key], err |-> NoErr]

\* DynamoPredictionCache.SavePredictions; putOut is the outcome of PutItem
DynamoSavePredictions(d, record, t, putOut) ==
    IF ~Validate(record) THEN [dynamo |-> d, err |-> ErrInvalid, puts |-> 0]
    ELSE LET stamped == [record EXCEPT !.lastUpdated = Unix(t),
                                       !.ttl = Unix(t) + cacheValidityDays * 24 * 60 * 60]
         IN  IF putOut = "err" THEN [dynamo |-> d, err |-> ErrPut, puts |-> 1]
             ELSE [dynamo |-> (DynamoKey(stamped) :> stamped) @@ d, err |-> NoErr, puts |-> 1]

\* ------------------------------------------------------- LRUCacheService
\* A cache service state c is [lru, dynamo, stats].
incrementLRUHits(s) == [s EXCEPT !.lruHits = @ + 1]
incrementLRUMisses(s) == [s EXCEPT !.lruMisses = @ + 1]
incrementDynamoHits(s) == [s EXCEPT !.dynamoHits = @ + 1]
incrementDynamoMisses(s) == [s EXCEPT !.dynamoMisses = @ + 1]

\* (an entry that keeps the record without its predictions)
NewEntryBare(record, t) == [key |-> getCacheKey(record.stationID, record.date),
                            data |-> [record EXCEPT !.predictions = <<>>],
                            expiresAt |-> TruncSecond(t) + GetLRUTTL]
\* the LRU entry a put stamps at time t
NewEntry(record, t) == [key |-> getCacheKey(record.stationID, record.date),
                        data |-> record,
                        expiresAt |-> TruncSecond(t) + GetLRUTTL]

\* LRUCacheService.SavePredictions
SavePredictions(c, record, t, putOut) ==
    IF ~Validate(record) THEN [c |-> c, err |-> ErrInvalid, puts |-> 0]
    ELSE LET l == LruAdd(c.lru, NewEntry(record, t))
             w == DynamoSavePredictions(c.dynamo, record, t, putOut)
         IN  [c |-> [c EXCEPT !.lru = l, !.dynamo = w.dynamo], err |-> w.err, puts |-> w.puts]

\* (a freshness test that still accepts the entry at the instant of expiry)
LruFreshInclusive(l, key, t) == LruContains(l, key) /\ LruPeek(l, key).expiresAt >= t
\* c.lru.Get(key) finds an entry and entry.ExpiresAt.After(c.clock.Now())
LruFresh(l, key, t) == LruContains(l, key) /\ LruPeek(l, key).expiresAt > t

\* LRUCacheService.GetPredictions(ctx, stationID, date): date is an instant in a
\* location of offset off; getOut and putOut are the outcomes of the remote calls
GetPredictions(c, stationID, date, off, t, getOut, putOut) ==
    LET day == FormatDate(date, off)
        key == getCacheKey(stationID, day)
        found == LruContains(c.lru, key)
        l1 == LruGet(c.lru, key)
    IN  IF LruFresh(c.lru, key, t)
        THEN [c |-> [c EXCEPT !.lru = l1, !.stats = incrementLRUHits(c.stats)],
              rec |-> LruPeek(c.lru, key).data, err |-> NoErr,
              lruCase |-> "hit", gets |-> 0, puts |-> 0, remote |-> Nil]
        ELSE LET l2 == IF found THEN LruRemove(l1, key) ELSE l1
                 s1 == incrementLRUMisses(c.stats)
                 lc == IF found THEN "expired" ELSE "absent"
                 g  == DynamoGetPredictions(c.dynamo, stationID, day, t, getOut)
             IN  IF g.err # NoErr
                 THEN [c |-> [c EXCEPT !.lru = l2, !.stats = s1],
                       rec |-> Nil, err |-> g.err,
                       lruCase |-> lc, gets |-> 1, puts |-> 0, remote |-> g]
                 ELSE IF g.rec # Nil
                 THEN LET s2 == incrementDynamoHits(s1)
                          w  == SavePredictions([c EXCEPT !.lru = l2, !.stats = s2],
                                                g.rec, t, putOut)
                      IN  [c |-> w.c,
                           rec |-> IF w.err = NoErr THEN g.rec ELSE Nil,
                           err |-> w.err,
                           lruCase |-> lc, gets |-> 1, puts |-> w.puts, remote |-> g]
                 ELSE [c |-> [c EXCEPT !.lru = l2, !.stats = incrementDynamoMisses(s1)],
                       rec |-> Nil, err |-> NoErr,
                       lruCase |-> lc, gets |-> 1, puts |-> 0, remote |-> g]

\* ------------------------------------------------- the station catalog
\* []models.Station slices: a slice is a reference into heap, which holds the
\* backing arrays; a backing array that nothing refers to any more is reused
MaxSlices == 5
Refs == 1..MaxSlices
NilRef == 0
\* time.Time{}, the lastUpdated of a StationCache that was never set
ZeroTime == -1
StationListTTLDays == 2
GetStationListTTL == StationListTTLDays * Day
\* the ttl an S3StationCache is constructed with, in hours
S3TTLHours == 24
Garbage == [garbage |-> TRUE]
ErrBucket == "empty bucket name"
ErrDecodeRecord == "decoding cache record"
ErrSaveS3 == "saving to S3"

\* make([]models.Station, n): the lowest backing array not in use
Alloc(live) == CHOOSE r \in Refs : r \notin live /\ \A q \in Refs : q \notin live => r <= q

\* (an expiry test that also counts the instant lastUpdated + ttl as expired)
isExpiredInclusive(m, t) == m.lastUpdated = ZeroTime \/ t - m.lastUpdated >= GetStationListTTL
\* StationCache.isExpired: time.Since(c.lastUpdated) > c.ttl; since the zero
\* time the duration saturates at its maximum, far above any ttl
isExpired(m, t) == m.lastUpdated = ZeroTime \/ t - m.lastUpdated > GetStationListTTL

\* StationCache.GetStations of the package that copies: make + copy
GetStationsCopy(h, m, t, live) ==
    IF isExpired(m, t) THEN [heap |-> h, stations |-> NilRef]
    ELSE LET r == Alloc(live)
         IN  [heap |-> [h EXCEPT ![r] = h[m.stations]], stations |-> r]
\* StationCache.GetStations of backend-go: return c.stations
GetStationsShared(h, m, t, live) ==
    IF isExpired(m, t) THEN [heap |-> h, stations |-> NilRef]
    ELSE [heap |-> h, stations |-> m.stations]
GetStations(b, h, m, t, live) ==
    IF b = "internal" THEN GetStationsCopy(h, m, t, live) ELSE GetStationsShared(h, m, t, live)

\* StationCache.SetStations of the package that copies
SetStationsCopy(h, m, stations, t, live) ==
    LET r == Alloc(live)
    IN  [heap |-> [h EXCEPT ![r] = h[stations]],
         mem |-> [stations |-> r, lastUpdated |-> t]]
\* StationCache.SetStations of backend-go: c.stations = stations
SetStationsShared(h, m, stations, t, live) ==
    [heap |-> h, mem |-> [stations |-> stations, lastUpdated |-> t]]
SetStations(b, h, m, stations, t, live) ==
    IF b = "internal" THEN SetStationsCopy(h, m, stations, t, live)
    ELSE SetStationsShared(h, m, stations, t, live)

\* (a blob expiry test that counts the second record.TTL itself as expired)
S3ExpiredInclusive(record, t) == Unix(t) >= record.ttl
\* c.clock.Now().Unix() > record.TTL
S3Expired(record, t) == Unix(t) > record.ttl

\* a list that is not nil
Some(list) == [list |-> list]
\* S3StationCache.GetStations; getOut is what GetObject comes to ("err" is any
\* error of the store, and a missing object is always one: NoSuchKey)
S3GetStations(c, getOut, t) ==
    IF c.bucketName = "" THEN [stations |-> Nil, err |-> ErrBucket]
    ELSE IF getOut = "err" \/ c.object = Nil THEN [stations |-> Nil, err |-> NoErr]
    ELSE IF c.object = Garbage THEN [stations |-> Nil, err |-> ErrDecodeRecord]
    ELSE IF S3Expired(c.object, t) THEN [stations |-> Nil, err |-> NoErr]
    ELSE [stations |-> Some(c.object.stations), err |-> NoErr]

\* S3StationCache.SaveStations
S3SaveStations(c, stations, putOut, t) ==
    IF c.bucketName = "" THEN [s3 |-> c, err |-> ErrBucket]
    ELSE IF putOut = "err" THEN [s3 |-> c, err |-> ErrSaveS3]
    ELSE [s3 |-> [c EXCEPT !.object = [stations |-> stations, lastUpdated |-> Unix(t),
                                       ttl |-> Unix(t) + S3TTLHours * 3600]],
          err |-> NoErr]

\* ---------------------------------------------- NOAAStationFinder (nearest)
MaxLatitude == 90
MaxLongitude == 180
DefaultLimit == 5
ErrLatitude == "invalid latitude"
ErrLongitude == "invalid longitude"
ErrStationList == "getting station list"
\* the stations the provider knows, in ascending order of their IDs, and where
\* they lie: all on one meridian, as the stations of TestFindNearestStations
StationIDs == <<"1612340", "8410140", "9447130">>
StationLon == -122
StationLat == [id \in {StationIDs[i] : i \in 1..Len(StationIDs)} |->
                 IF id = "1612340" THEN 50 ELSE IF id = "8410140" THEN 47 ELSE 49]
\* calculateDistance between two points of one meridian: with dLon = 0 the
\* haversine formula is earthRadius * |dLat| in radians, here in degrees of arc
calculateDistance(lat1, lon1, lat2, lon2) == AbsDiff(lat1, lat2)
\* (a limit taken as it was given)
EffectiveLimitRaw(limit, n) == IF limit > n THEN n ELSE limit
\* if limit <= 0 { limit = 5 }; if limit > len(stationDistances) { limit = len(...) }
EffectiveLimit(limit, n) ==
    LET l == IF limit <= 0 THEN DefaultLimit ELSE limit
    IN  IF l > n THEN n ELSE l
\* sort.Slice on a slice of at most 12 elements is an insertion sort: an
\* element moves left past the elements it is less than, and only those
RECURSIVE InsertByDistance(_, _)
InsertByDistance(sorted, x) ==
    IF sorted = <<>> THEN <<x>>
    ELSE IF x.distance < sorted[Len(sorted)].distance
         THEN Append(InsertByDistance(SubSeq(sorted, 1, Len(sorted) - 1), x), sorted[Len(sorted)])
         ELSE Append(sorted, x)
RECURSIVE SortByDistance(_)
SortByDistance(seq) ==
    IF seq = <<>> THEN <<>>
    ELSE InsertByDistance(SortByDistance(SubSeq(seq, 1, Len(seq) - 1)), seq[Len(seq)])
\* the coordinate checks FindNearestStations makes before it reads the catalog
CoordinateError(lat, lon) ==
    IF lat < -MaxLatitude \/ lat > MaxLatitude THEN ErrLatitude
    ELSE IF lon < -MaxLongitude \/ lon > MaxLongitude THEN ErrLongitude
    ELSE NoErr
\* what FindNearestStations makes of the catalog getStationList gave it
NearestOf(stations, lat, lon, limit) ==
    LET stationDistances == [i \in 1..Len(stations) |->
                               [id |-> stations[i],
                                distance |-> calculateDistance(lat, lon, StationLat[stations[i]], StationLon)]]
        sorted == SortByDistance(stationDistances)
    IN  SubSeq(sorted, 1, EffectiveLimit(limit, Len(sorted)))
NoFind == [pc |-> "idle", n |-> 0, since |-> 0, lat |-> 0, lon |-> 0, limit |-> 0,
           catalog |-> <<>>, stations |-> Nil, err |-> NoErr]

\* ------------------------------------------------------------- float64
\* A float64 is modelled as a binary floating-point number of Precision
\* significant bits whose smallest step is 2^-FractionBits: the integer n
\* stands for n / Scale. Every operation rounds its exact result to the
\* nearest representable number, a tie to the even one.
Precision == 4
FractionBits == 4
RECURSIVE Pow2(_)
Pow2(n) == IF n = 0 THEN 1 ELSE 2 * Pow2(n - 1)
Scale == Pow2(FractionBits)
Abs(x) == IF x < 0 THEN -x ELSE x
RECURSIVE BitLen(_)
BitLen(a) == IF a = 0 THEN 0 ELSE 1 + BitLen(a \div 2)
\* the spacing of the representable numbers at magnitude a
Ulp(a) == IF BitLen(a) <= Precision THEN 1 ELSE Pow2(BitLen(a) - Precision)
\* the representable number nearest to p / q
Round(p, q) ==
    LET quantum == Ulp(Abs(p) \div q)
        d == q * quantum
        k == p \div d
        rem == p - k * d
    IN  quantum * (IF 2 * rem < d THEN k
                   ELSE IF 2 * rem > d THEN k + 1
                   ELSE IF k % 2 = 0 THEN k ELSE k + 1)
fadd(x, y) == Round(x + y, 1)
\* (a subtraction with its operands exchanged)
fsubReversed(x, y) == Round(y - x, 1)
fsub(x, y) == Round(x - y, 1)
fmul(x, y) == Round(x * y, Scale)
fdiv(x, y) == Round(x * Scale, y)
\* float64(n) of an int64
float64(n) == Round(n * Scale, 1)
\* math.Pow(t, 2) and math.Pow(t, 3)
Pow(t, n) == IF n = 2 THEN Round(t * t, Scale) ELSE Round(t * t * t, Scale * Scale)

\* (a search for the first entry after the timestamp)
findNearestIndexAfter(series, timestamp) ==
    IF \E i \in 1..Len(series) : series[i].t > timestamp
    THEN (CHOOSE i \in 1..Len(series) :
             /\ series[i].t > timestamp
             /\ \A j \in 1..(i - 1) : series[j].t <= timestamp) - 1
    ELSE Len(series)
\* findNearestIndex, findNearestExtremeIndex: sort.Search for the first entry
\* at or after the timestamp, counted from 0; len(series) if there is none
findNearestIndex(series, timestamp) ==
    IF \E i \in 1..Len(series) : series[i].t >= timestamp
    THEN (CHOOSE i \in 1..Len(series) :
             /\ series[i].t >= timestamp
             /\ \A j \in 1..(i - 1) : series[j].t < timestamp) - 1
    ELSE Len(series)

\* interpolatePredictions: linear between the two bracketing predictions
interpolatePredictions(predictions, timestamp) ==
    LET idx == findNearestIndex(predictions, timestamp)
    IN  IF Len(predictions) = 0 THEN 0
        ELSE IF idx <= 0 THEN predictions[1].h
        ELSE IF idx >= Len(predictions) THEN predictions[Len(predictions)].h
        ELSE LET p1 == predictions[idx]
                 p2 == predictions[idx + 1]
                 ratio == fdiv(float64(timestamp - p1.t), float64(p2.t - p1.t))
             IN  fadd(p1.h, fmul(fsub(p2.h, p1.h), ratio))

\* interpolateExtremes: cubic Hermite between the two bracketing extremes,
\* with tangents from their neighbours
interpolateExtremes(extremes, timestamp) ==
    LET idx == findNearestIndex(extremes, timestamp)
    IN  IF Len(extremes) = 0 THEN 0
        ELSE IF idx <= 0 THEN extremes[1].h
        ELSE IF idx >= Len(extremes) THEN extremes[Len(extremes)].h
        ELSE LET e1 == extremes[idx]
                 e2 == extremes[idx + 1]
                 t == fdiv(float64(timestamp - e1.t), float64(e2.t - e1.t))
                 one == Scale
                 h00 == fadd(fsub(fmul(2 * one, Pow(t, 3)), fmul(3 * one, Pow(t, 2))), one)
                 h10 == fadd(fsub(Pow(t, 3), fmul(2 * one, Pow(t, 2))), t)
                 h01 == fadd(fmul(-2 * one, Pow(t, 3)), fmul(3 * one, Pow(t, 2)))
                 h11 == fsub(Pow(t, 3), Pow(t, 2))
                 m1 == IF idx > 1
                       THEN fdiv(fsub(e2.h, extremes[idx - 1].h), float64(e2.t - extremes[idx - 1].t))
                       ELSE 0
                 m2 == IF idx < Len(extremes) - 1
                       THEN fdiv(fsub(extremes[idx + 2].h, e1.h), float64(extremes[idx + 2].t - e1.t))
                       ELSE 0
                 dt == float64(e2.t - e1.t)
             IN  fadd(fadd(fadd(fmul(h00, e1.h), fmul(fmul(h10, m1), dt)),
                           fmul(h01, e2.h)),
                      fmul(fmul(h11, m2), dt))
\* what the two functions divide by when they interpolate between p1 and p2:
\* the difference of the bracket, and the differences behind the two tangents
\* of interpolateExtremes (m1 when idx > 1, m2 when idx < len - 1)
Divisors(series, timestamp) ==
    LET idx == findNearestIndex(series, timestamp)
    IN  IF Len(series) = 0 \/ idx <= 0 \/ idx >= Len(series) THEN <<>>
        ELSE <<float64(series[idx + 1].t - series[idx].t)>>
             \o (IF idx > 1 THEN <<float64(series[idx + 1].t - series[idx - 1].t)>> ELSE <<>>)
             \o (IF idx < Len(series) - 1
                 THEN <<float64(series[idx + 2].t - series[idx].t)>> ELSE <<>>)
NoInterp == [n |-> 0, knots |-> <<>>, timestamp |-> 0, linear |-> 0, hermite |-> 0]

\* ------------------------------ DynamoPredictionCache.SavePredictionsBatch
\* the call in progress: its configuration, its position in the two loops and
\* what it has sent so far (cuts: the batches cut, sent and written: per input
\* record the BatchWriteItem requests that held it and those that succeeded)
NoBatch == [pc |-> "idle", cfg |-> [BatchSize |-> 1, MaxBatchRetries |-> 1],
            records |-> <<>>, i |-> 0, retry |-> 0, items |-> <<>>, lastErr |-> "none",
            err |-> "none", cuts |-> <<>>, sent |-> <<>>, written |-> <<>>,
            successes |-> 0, failures |-> 0]

\* ------------------------- the worker pool of FindNearestStations (backend)
\* const workerCount = 4
workerCount == 4
Workers == 1..workerCount
\* work and results are the two buffered channels, wg the WaitGroup, closer
\* the goroutine that closes results, collected is stationsWithDistance
NoPool == [pc |-> "idle", catalog |-> <<>>, lat |-> 0, lon |-> 0, limit |-> 0, idx |-> 1,
           work |-> <<>>, workClosed |-> FALSE, results |-> <<>>, resultsClosed |-> FALSE,
           workers |-> [w \in Workers |-> [pc |-> "range", station |-> Nil]],
           wg |-> 0, closer |-> "none", collected |-> <<>>, stations |-> Nil]
\* if len(stationsWithDistance) > limit { ... = stationsWithDistance[:limit] }
PoolLimit(sorted, limit) == IF Len(sorted) > limit THEN SubSeq(sorted, 1, limit) ELSE sorted

\* ------------------------------------------------- concurrent callers
MaxThreads == 2
MaxThreadCalls == 2
Threads == 1..MaxThreads
IdleThread == [pc |-> "idle", op |-> "none", calls |-> 0, gets |-> 0, entry |-> Nil,
               counter |-> "none", reg |-> 0, next |-> "idle", rec |-> Nil,
               err |-> NoErr, snapshot |-> Nil]
\* (a Lock that never waits)
CanLockAnyway(mu) == TRUE
\* sync.RWMutex.Lock: no writer and no reader holds the mutex
CanLock(mu) == mu.writer = 0 /\ mu.readers = 0
\* sync.RWMutex.RLock: no writer holds the mutex
CanRLock(mu) == mu.writer = 0
\* a call of increment*: the counter to raise and where the caller goes on
Increment(th, counter, next) == [th EXCEPT !.pc = "lock", !.counter = counter, !.next = next]

\* ------------------------------------------------------------------ state
VARIABLES
    now,        \* the wall clock (clock.Now / time.Now), in ticks
    lru,        \* LRUCacheService.lru
    dynamo,     \* the remote table tide-predictions-cache
    stats,      \* lruHits, lruMisses, dynamoHits, dynamoMisses
    ret,        \* what the last direct call of the cache service returned
    faults,     \* remote and upstream failures injected so far (those of the request
                \* path are limited to MaxFaults, those of a batch write by its retry loop)
    station,    \* the catalog entry FindStation resolves
    req,        \* the tide request in progress (GetCurrentTideForStation)
    nreq,       \* direct calls of the cache service so far
    cancelled,  \* the requests whose context was cancelled
    wb,         \* the write-back tasks spawned so far
    build,      \* which of the repository's two StationCache sources is linked
    heap,       \* the backing arrays of the []models.Station slices in use
    mem,        \* StationCache: stations (a slice of heap) and lastUpdated
    s3,         \* S3StationCache: bucketName, the object stations.json, the
                \* saves spawned by getStationList that have not run yet
    call,       \* the getStationList call in progress
    held,       \* the slices a caller of StationCache holds
    find,       \* the FindNearestStations call in progress and what the last one returned
    interp,     \* the series handed to the interpolation functions and what they returned
    batch,      \* a DynamoPredictionCache.SavePredictionsBatch call under its own configuration
    pool,       \* the worker pool of the backend's FindNearestStations
    thr,        \* the goroutines calling the cache service concurrently
    statsMutex, \* LRUCacheService.statsMutex: its writer and its readers
    statsSeen   \* the values the four counters have had under concurrent callers

tideVars == <<lru, dynamo, stats, ret, faults, station, req, nreq, cancelled, wb>>
unitVars == <<interp, batch, pool>>
catVars == <<build, heap, mem, s3, call, held, find, unitVars>>
concVars == <<thr, statsMutex, statsSeen>>
vars == <<now, tideVars, catVars, concVars>>

C == [lru |-> lru, dynamo |-> dynamo, stats |-> stats]

StationID == "TEST001"
\* the first day of the scenario and the instant the service is constructed
Day0 == 3
Now0 == Day0 * Day + 12 * Hour
\* the instants the clock is observed at
ClockPoints == {Now0 + x : x \in {0, 1, GetLRUTTL - 1, GetLRUTTL, GetLRUTTL + Second}}

\* ------------------------------------------------------- upstream (NOAA)
\* parseNoaaTime: "2006-01-02 15:04" in the station's zone
parseNoaaTime(wall, off) == ParseInLocation(wall, off)
Point(wall, off, h) == [t |-> parseNoaaTime(wall, off),
                        wall |-> formatLocalTime(parseNoaaTime(wall, off), off),
                        h |-> h]
\* what the provider answers for the local days lo..hi: a dense series for a
\* reference station only, HIGH/LOW extremes for every station
NoaaPredictions(st, lo, hi) ==
    IF st.stationType = "S" THEN <<>>
    ELSE [i \in 1..(2 * (hi - lo + 1)) |->
            LET d == lo + ((i - 1) \div 2)
                hr == IF i % 2 = 1 THEN 0 ELSE 12
            IN  Point(d * Day + hr * Hour, st.off, IF hr = 0 THEN 1 ELSE 3)]
NoaaExtremes(st, lo, hi) ==
    [i \in 1..(2 * (hi - lo + 1)) |->
        LET d == lo + ((i - 1) \div 2)
            hr == IF i % 2 = 1 THEN 6 ELSE 18
        IN  [type |-> IF hr = 6 THEN "HIGH" ELSE "LOW"] @@
            Point(d * Day + hr * Hour, st.off, IF hr = 6 THEN 4 ELSE 0)]

\* (the points of a series that fall on day d of UTC)
ByDayUTC(series, d, off) == SelectSeq(series, LAMBDA p : FormatDate(p.t, 0) = d)
\* the points of a series that fall on local day d (predictionsByDay[dateStr])
ByDay(series, d, off) == SelectSeq(series, LAMBDA p : FormatDate(p.t, off) = d)

\* cache.TidePredictionRecord literal of getPredictionsForDateRange
NewRecord(st, d, predictions, extremes) ==
    [stationID |-> st.id, date |-> d, stationType |-> st.stationType,
     predictions |-> ByDay(predictions, d, st.off),
     extremes |-> ByDay(extremes, d, st.off),
     lastUpdated |-> 0, ttl |-> 0]

\* ------------------------------------------------- what the table may hold
SeedKinds == {"absent", "valid", "stale", "invalid"}
SeedDays == {Day0, Day0 + 1}
SeedRecord(st, d, kind) ==
    LET stt == IF st.stationType \in {"R", "S"} THEN st ELSE [st EXCEPT !.stationType = "R"]
        r == NewRecord(stt, d, NoaaPredictions(stt, d, d), NoaaExtremes(stt, d, d))
    IN  [r EXCEPT !.stationType = IF kind = "invalid" THEN "" ELSE @,
                  !.lastUpdated = Unix(Now0) - 60,
                  !.ttl = IF kind = "stale" THEN Unix(Now0 + GetLRUTTL)
                          ELSE Unix(Now0) + GetDynamoTTLSeconds]
SeedTable(st, f) ==
    LET ds == {d \in SeedDays : f[d] # "absent"}
    IN  [k \in {<<st.id, d>> : d \in ds} |-> SeedRecord(st, k[2], f[k[2]])]

Stations == {[id |-> StationID, off |-> -8 * 3600, stationType |-> "R"],
             [id |-> StationID, off |-> 0, stationType |-> "R"],
             [id |-> StationID, off |-> 10 * 3600, stationType |-> "S"],
             [id |-> StationID, off |-> -8 * 3600, stationType |-> "nil"],
             [id |-> StationID, off |-> 0, stationType |-> "T"]}

NoRet == [op |-> "none"]
Idle == [pc |-> "idle"]

InitCommon ==
    /\ now = Now0
    /\ lru = <<>>
    /\ stats = [lruHits |-> 0, lruMisses |-> 0, dynamoHits |-> 0, dynamoMisses |-> 0]
    /\ ret = NoRet
    /\ faults = 0
    /\ req = Idle
    /\ nreq = 0
    /\ cancelled = {}
    /\ wb = <<>>
    /\ thr = [t \in Threads |-> IdleThread]
    /\ statsMutex = [writer |-> 0, readers |-> 0]
    /\ statsSeen = {stats}

\* NewStationCache, NewNOAAStationFinder: nothing cached, nothing in flight
InitCatalog ==
    /\ heap = [r \in Refs |-> <<>>]
    /\ mem = [stations |-> 1, lastUpdated |-> ZeroTime]
    /\ call = [pc |-> "idle", n |-> 0, trace |-> <<>>, stations |-> NilRef, err |-> NoErr]
    /\ held = [n |-> 0, op |-> "none", out |-> "ok", got |-> NilRef, gave |-> NilRef,
               s3ret |-> [stations |-> Nil, err |-> NoErr]]
    /\ find = NoFind
    /\ interp = NoInterp
    /\ batch = NoBatch
    /\ pool = NoPool

\* the station catalog as the tide service finds it: untouched
NoCatalog ==
    /\ InitCatalog
    /\ build = "internal"
    /\ s3 = [configured |-> FALSE, bucketName |-> "", object |-> Nil, pending |-> <<>>]

\* ------------------------------------------------------------- the clock
Tick ==
    /\ \E t \in ClockPoints : t > now /\ now' = t
    /\ UNCHANGED <<lru, dynamo, stats, ret, faults, station, req, nreq, cancelled, wb, catVars, concVars>>

\* ------------------------------------ direct calls of the cache service
Outcomes == {"ok", "err"}
FaultCost(o) == IF o = "err" THEN 1 ELSE 0

\* service.GetPredictions(ctx, stationID, date) with date a UTC instant on day d
ApiGetPredictions(d, getOut, putOut) ==
    /\ nreq < MaxCalls
    /\ nreq' = nreq + 1
    /\ LET g == GetPredictions(C, StationID, d * Day, 0, now, getOut, putOut)
       IN  /\ getOut = "err" => g.gets = 1
           /\ putOut = "err" => g.puts = 1
           /\ faults + FaultCost(getOut) + FaultCost(putOut) <= MaxFaults
           /\ faults' = faults + FaultCost(getOut) + FaultCost(putOut)
           /\ lru' = g.c.lru
           /\ dynamo' = g.c.dynamo
           /\ stats' = g.c.stats
           /\ ret' = [op |-> "get", key |-> getCacheKey(StationID, d), rec |-> g.rec,
                      err |-> g.err, lruCase |-> g.lruCase, gets |-> g.gets,
                      puts |-> g.puts, remote |-> g.remote]
    /\ UNCHANGED <<now, station, req, cancelled, wb, catVars, concVars>>

\* service.SavePredictions(ctx, record)
ApiSavePredictions(record, putOut) ==
    /\ nreq < MaxCalls
    /\ nreq' = nreq + 1
    /\ LET w == SavePredictions(C, record, now, putOut)
       IN  /\ putOut = "err" => w.puts = 1
           /\ faults + FaultCost(putOut) <= MaxFaults
           /\ faults' = faults + FaultCost(putOut)
           /\ lru' = w.c.lru
           /\ dynamo' = w.c.dynamo
           /\ stats' = w.c.stats
           /\ ret' = [op |-> "save", key |-> getCacheKey(record.stationID, record.date),
                      rec |-> record, err |-> w.err, lruCase |-> "none", gets |-> 0,
                      puts |-> w.puts, at |-> now]
    /\ UNCHANGED <<now, station, req, cancelled, wb, catVars, concVars>>

\* what the record GetPredictions returned has in common with the LRU entry:
\* on an LRU hit it is entry.Data itself; on a remote hit the entry holds a
\* copy of the struct (SavePredictions takes it by value), whose Predictions
\* and Extremes are slices of the same backing arrays
Shares(r) == IF r.lruCase = "hit" THEN "record" ELSE "slices"
ModifyField(record) == [record EXCEPT !.stationType = Scribble]
ModifyElement(record) == [record EXCEPT !.extremes[1].type = Scribble]

\* the caller writes to the record the last GetPredictions returned: to a
\* field of it, or to an element of one of its sequences
CallerModify(part) ==
    /\ ret.op = "get"
    /\ ret.rec # Nil
    /\ LruContains(lru, ret.key)
    /\ IF part = "field"
       THEN /\ ret.rec.stationType # Scribble
            /\ ret' = [ret EXCEPT !.rec = ModifyField(@)]
            /\ lru' = IF Shares(ret) = "record"
                      THEN [lru EXCEPT ![LruIndex(lru, ret.key)].data = ModifyField(@)]
                      ELSE lru
       ELSE /\ ret.rec.extremes # <<>>
            /\ ret.rec.extremes[1].type # Scribble
            /\ ret' = [ret EXCEPT !.rec = ModifyElement(@)]
            /\ lru' = [lru EXCEPT ![LruIndex(lru, ret.key)].data = ModifyElement(@)]
    /\ UNCHANGED <<now, dynamo, stats, faults, station, req, nreq, cancelled, wb, catVars, concVars>>

\* service.Clear()
ApiClear ==
    /\ nreq < MaxCalls
    /\ nreq' = nreq + 1
    /\ lru' = <<>>
    /\ ret' = [op |-> "clear"]
    /\ UNCHANGED <<now, dynamo, stats, faults, station, req, cancelled, wb, catVars, concVars>>

\* the records a caller saves: day records of the station, one of them invalid
ApiRecords == {SeedRecord(station, Day0, "valid"), SeedRecord(station, Day0, "invalid"),
               SeedRecord(station, Day0 + 1, "valid")}
ApiDays == SeedDays

InitCache ==
    /\ InitCommon
    /\ NoCatalog
    /\ station = [id |-> StationID, off |-> 0, stationType |-> "R"]
    /\ \E f \in [SeedDays -> SeedKinds] :
          /\ f[Day0 + 1] \in {"absent", "valid"}
          /\ dynamo = SeedTable(station, f)

NextCache ==
    \/ Tick
    \/ \E d \in ApiDays, g \in Outcomes, p \in Outcomes : ApiGetPredictions(d, g, p)
    \/ \E r \in ApiRecords, p \in Outcomes : ApiSavePredictions(r, p)
    \/ \E part \in {"field", "element"} : CallerModify(part)
    \/ ApiClear

SpecCache == InitCache /\ [][NextCache]_vars

\* ----------------------------------------------------- the tide request
NilStr == [kind |-> "nil"]
BadStr == [kind |-> "bad"]
WallStr(w) == [kind |-> "wall", wall |-> w]

\* ctx.Done(): context.Background() is context 0 and is never cancelled
CtxDone(ctx) == ctx \in cancelled
\* the outcome of an I/O call made under ctx
Under(ctx, out) == IF CtxDone(ctx) THEN "err" ELSE out

\* for d := startDate; !d.After(endDate); d = d.AddDate(0, 0, 1)
RECURSIVE DateList(_, _)
DateList(d, endDate) == IF d > endDate THEN <<>> ELSE <<d>> \o DateList(d + Day, endDate)

RECURSIVE Flatten(_, _)
Flatten(records, field) ==
    IF records = <<>> THEN <<>>
    ELSE Head(records)[field] \o Flatten(Tail(records), field)

\* sort.Slice on a field (ascending)
RECURSIVE InsertBy(_, _, _)
InsertBy(x, sorted, field) ==
    IF sorted = <<>> THEN <<x>>
    ELSE IF x[field] < Head(sorted)[field] THEN <<x>> \o sorted
    ELSE <<Head(sorted)>> \o InsertBy(x, Tail(sorted), field)
RECURSIVE SortBy(_, _)
SortBy(seq, field) ==
    IF seq = <<>> THEN <<>> ELSE InsertBy(Head(seq), SortBy(Tail(seq), field), field)

\* (a window filter that leaves out a point at the end of the window)
filterTimestampsHalfOpen(series, start, end) == SelectSeq(series, LAMBDA p : p.t >= start /\ p.t < end)
\* filterTimestamps / filterExtremes: both bounds inclusive
filterTimestamps(series, start, end) == SelectSeq(series, LAMBDA p : p.t >= start /\ p.t <= end)

\* (a generated series that stops short of the end of the window)
GeneratePredictionsHalfOpen(start, end, off) ==
    IF end <= start THEN <<>>
    ELSE [i \in 1..((end - start - 1) \div (6 * Minute) + 1) |->
            [t |-> start + (i - 1) * 6 * Minute,
             wall |-> formatLocalTime(start + (i - 1) * 6 * Minute, off)]]
\* for t := startTimestamp; t <= endTimestamp; t += 6 * 60 * 1000: the series
\* generated from the extremes when no record holds a prediction. A generated
\* point is kept without its Height, which is interpolateExtremes(allExtremes, t)
\* and is computed where it is read (HeightOf)
GeneratePredictions(start, end, off) ==
    IF end < start THEN <<>>
    ELSE [i \in 1..((end - start) \div (6 * Minute) + 1) |->
            [t |-> start + (i - 1) * 6 * Minute,
             wall |-> formatLocalTime(start + (i - 1) * 6 * Minute, off)]]
\* the Height of a prediction of the response
HeightOf(p, allExtremes) ==
    IF "h" \in DOMAIN p THEN p.h ELSE interpolateExtremes(allExtremes, p.t)

\* (a timestamp with a prediction before it, whatever comes after it)
BracketedOrAfter(idx, n) == idx > 0
\* idx > 0 && idx < len(filteredPredictions)
Bracketed(idx, n) == idx > 0 /\ idx < n
\* "Determine tide type": RISING or FALLING against the filtered prediction
\* before now, nothing when there is none or none at or after now
TideTypeOf(filteredPredictions, allExtremes, nowLocal, currentLevel) ==
    LET idx == findNearestIndex(filteredPredictions, nowLocal)
    IN  IF Len(filteredPredictions) >= 2 /\ Bracketed(idx, Len(filteredPredictions))
        THEN IF currentLevel > HeightOf(filteredPredictions[idx], allExtremes)
             THEN "RISING" ELSE "FALLING"
        ELSE "nil"

\* GetCurrentTideForStation from "Combine predictions and extremes" on: the
\* pooled series, sorted and cut to the window
Response(r, records) ==
    LET pooled == SortBy(Flatten(records, "predictions"), "t")
        allExtremes == SortBy(Flatten(records, "extremes"), "t")
        allPredictions == IF pooled = <<>>
                          THEN GeneratePredictions(r.start, r.end, station.off)
                          ELSE pooled
        nowLocal == TruncSecond(r.now)
        currentLevel == IF pooled = <<>> THEN interpolateExtremes(allExtremes, nowLocal)
                        ELSE interpolatePredictions(allPredictions, nowLocal)
    IN  [kind |-> "ok", err |-> NoErr,
         timestamp |-> nowLocal,
         waterLevel |-> currentLevel,
         tideType |-> TideTypeOf(filterTimestamps(allPredictions, r.start, r.end), allExtremes,
                                 nowLocal, currentLevel),
         days |-> [i \in 1..Len(records) |-> records[i].date],
         synthesized |-> (pooled = <<>>),
         pool |-> records,
         predictions |-> filterTimestamps(allPredictions, r.start, r.end),
         extremes |-> filterTimestamps(allExtremes, r.start, r.end)]
Failure(e) == [kind |-> "error", err |-> e]

Finish(r, records) == [r EXCEPT !.pc = "done", !.result = Response(r, records)]
Fail(r, e) == [r EXCEPT !.pc = "done", !.result = Failure(e)]

\* getPredictionsForDateRange after a probe: the next date, the complete cache
\* hit, or the coalesced fetch
AfterProbe(r) ==
    IF r.idx <= Len(r.dates) THEN r
    ELSE IF r.missing = <<>> THEN Finish(r, r.cached)
    ELSE [r EXCEPT !.pc = "fetchPred"]

\* (a range check that also rejects exactly 5 days)
RangeExceededInclusive(startTime, endTime) == endTime - startTime >= MaxRangeDays * Day
\* endTime.Sub(startTime) > 5*24*time.Hour
RangeExceeded(startTime, endTime) == endTime - startTime > MaxRangeDays * Day

\* (a query range that ends on the day of the end time)
QueryEndSameDay(endTime) == TruncDay(endTime)
\* queryEnd := endTime.Truncate(24*time.Hour).AddDate(0, 0, 1)
QueryEnd(endTime) == TruncDay(endTime) + Day

\* GetCurrentTideForStation up to the call of getPredictionsForDateRange
GetCurrentTideForStation(found, startStr, endStr) ==
    /\ req.pc = "idle"
    /\ LET off == station.off
           startTime == IF startStr.kind = "wall" THEN ParseInLocation(startStr.wall, off)
                        ELSE FormatDate(now, off) * Day - off * Second
           endTime == IF endStr.kind = "wall" THEN ParseInLocation(endStr.wall, off)
                      ELSE startTime + Day
           useExtremes == station.stationType = "S"
           queryStart == IF useExtremes THEN TruncDay(startTime) - Day ELSE startTime
           queryEnd == QueryEnd(endTime)
           r == [id |-> 1, pc |-> "probe", now |-> now, start |-> startTime, end |-> endTime,
                 dates |-> DateList(queryStart, queryEnd), idx |-> 1,
                 cached |-> <<>>, missing |-> <<>>, probeLog |-> <<>>,
                 predFetches |-> 0, extFetches |-> 0, httpLog |-> <<>>, asked |-> <<>>,
                 spawned |-> 0,
                 result |-> Nil]
       IN  req' = IF ~found THEN Fail(r, "finding localStation")
                  ELSE IF startStr.kind = "bad" THEN Fail(r, "parsing start time")
                  ELSE IF endStr.kind = "bad" THEN Fail(r, "parsing end time")
                  ELSE IF RangeExceeded(startTime, endTime)
                       THEN Fail(r, "date range cannot exceed 5 days")
                  ELSE AfterProbe(r)
    /\ UNCHANGED <<now, lru, dynamo, stats, ret, faults, station, nreq, cancelled, wb, catVars, concVars>>

\* the body of the per-day probe loop once GetPredictions returned g: the
\* error is logged only, a nil record makes the day a missing date
\* (first a loop body that gives up on the error)
ProbedStrict(r, date, g) ==
    IF g.err # NoErr THEN Fail(r, "getting predictions")
    ELSE AfterProbe([r EXCEPT !.idx = @ + 1, !.cached = Append(@, g.rec)])
Probed(r, date, g) ==
    AfterProbe([r EXCEPT
        !.idx = @ + 1,
        !.cached = IF g.rec # Nil THEN Append(@, g.rec) ELSE @,
        !.missing = IF g.rec = Nil THEN Append(@, date) ELSE @])

\* one turn of the per-day probe loop of getPredictionsForDateRange; probeLog
\* notes what each call of GetPredictions returned as its error
Probe(getOut, putOut) ==
    /\ req.pc = "probe"
    /\ LET date == req.dates[req.idx]
           g == GetPredictions(C, station.id, date, station.off, now,
                               Under(req.id, getOut), Under(req.id, putOut))
       IN  /\ getOut = "err" => g.gets = 1 /\ ~CtxDone(req.id)
           /\ putOut = "err" => g.puts = 1 /\ ~CtxDone(req.id)
           /\ faults + FaultCost(getOut) + FaultCost(putOut) <= MaxFaults
           /\ faults' = faults + FaultCost(getOut) + FaultCost(putOut)
           /\ lru' = g.c.lru
           /\ dynamo' = g.c.dynamo
           /\ stats' = g.c.stats
           /\ req' = [Probed(req, date, g) EXCEPT !.probeLog = Append(@, g.err)]
    /\ UNCHANGED <<now, ret, station, nreq, cancelled, wb, catVars, concVars>>

\* the span of the coalesced fetch: minDate and maxDate of missingDates
MinOf(seq) == CHOOSE x \in {seq[i] : i \in 1..Len(seq)} : \A j \in 1..Len(seq) : x <= seq[j]
MaxOf(seq) == CHOOSE x \in {seq[i] : i \in 1..Len(seq)} : \A j \in 1..Len(seq) : x >= seq[j]
\* (a span that covers every date of the range)
FetchSpanOfRange(r, off) == [begin |-> FormatDate(r.dates[1], off),
                            end |-> FormatDate(r.dates[Len(r.dates)], off)]
\* startStr := minDate.Format("20060102"); endStr := maxDate.Format("20060102")
FetchSpan(r, off) == [begin |-> FormatDate(MinOf(r.missing), off),
                      end |-> FormatDate(MaxOf(r.missing), off)]
\* (a record for every date of the range from the first missing date to the last)
RecordDatesOfSpan(r) ==
    SelectSeq(r.dates, LAMBDA d : MinOf(r.missing) <= d /\ d <= MaxOf(r.missing))
\* for _, date := range missingDates: the dates a new record is made for
RecordDates(r) == r.missing
\* the begin_date and end_date of an upstream request, noted in req.asked
Asked(what, r, off) == [what |-> what] @@ FetchSpan(r, off)

\* what client.Client.Get and the decoding of its body come to: "status" is a
\* response with a status other than 2xx whose body is JSON that carries no
\* series; Get hands it over like any other response and the body decodes to
\* an empty list
HttpOutcomes == {"ok", "status", "transport", "decode"}
HttpFails(out) == out \in {"transport", "decode"}
HttpError(what, out) == IF out = "transport" THEN "fetching " \o what ELSE "decoding response"

\* (a predictions fetch repeated for every missing day)
FetchNoaaPredictionsPerDay(out) ==
    /\ req.pc = "fetchPred"
    /\ CtxDone(req.id) => out = "transport"
    /\ LET cost == IF out # "ok" /\ ~CtxDone(req.id) THEN 1 ELSE 0
       IN  /\ faults + cost <= MaxFaults
           /\ faults' = faults + cost
    /\ LET r == [req EXCEPT !.predFetches = @ + 1, !.httpLog = Append(@, out),
                            !.asked = Append(@, Asked("predictions", req, station.off))]
       IN  req' = IF HttpFails(out) THEN Fail(r, HttpError("predictions", out))
                  ELSE IF r.predFetches < Len(r.missing) THEN r
                  ELSE [r EXCEPT !.pc = "fetchExt"]
    /\ UNCHANGED <<now, lru, dynamo, stats, ret, station, nreq, cancelled, wb, catVars, concVars>>
\* (a predictions fetch whose failure is ignored)
FetchNoaaPredictionsLenient(out) ==
    /\ req.pc = "fetchPred"
    /\ CtxDone(req.id) => out = "transport"
    /\ LET cost == IF out # "ok" /\ ~CtxDone(req.id) THEN 1 ELSE 0
       IN  /\ faults + cost <= MaxFaults
           /\ faults' = faults + cost
    /\ req' = [req EXCEPT !.predFetches = @ + 1, !.httpLog = Append(@, out),
                          !.asked = Append(@, Asked("predictions", req, station.off)),
                          !.pc = "fetchExt"]
    /\ UNCHANGED <<now, lru, dynamo, stats, ret, station, nreq, cancelled, wb, catVars, concVars>>
\* fetchNoaaPredictions for the span
FetchNoaaPredictions(out) ==
    /\ req.pc = "fetchPred"
    /\ CtxDone(req.id) => out = "transport"
    /\ LET cost == IF out # "ok" /\ ~CtxDone(req.id) THEN 1 ELSE 0
       IN  /\ faults + cost <= MaxFaults
           /\ faults' = faults + cost
    /\ LET r == [req EXCEPT !.predFetches = @ + 1, !.httpLog = Append(@, out),
                            !.asked = Append(@, Asked("predictions", req, station.off))]
       IN  req' = IF HttpFails(out) THEN Fail(r, HttpError("predictions", out))
                  ELSE [r EXCEPT !.pc = "fetchExt"]
    /\ UNCHANGED <<now, lru, dynamo, stats, ret, station, nreq, cancelled, wb, catVars, concVars>>

\* (a write-back that runs under the request's context)
WriteBackCtxShared(id) == id
\* context.Background() of the write-back goroutine
WriteBackCtx(id) == 0

\* go func(records) {...}(newRecords); slept is the latest backoff sleep in
\* milliseconds, afterCancel notes whether the request's context was already
\* cancelled when the task came to its end
NewTask(id, records) == [req |-> id, ctx |-> WriteBackCtx(id), records |-> records,
                         pc |-> "start", i |-> 1, retry |-> 0, items |-> <<>>,
                         err |-> NoErr, slept |-> 0, afterCancel |-> FALSE]

\* fetchNoaaExtremes for the span, then the re-bucketing, the spawn of the
\* write-back and the assembly of the response
FetchNoaaExtremes(out) ==
    /\ req.pc = "fetchExt"
    /\ CtxDone(req.id) => out = "transport"
    /\ LET cost == IF out # "ok" /\ ~CtxDone(req.id) THEN 1 ELSE 0
       IN  /\ faults + cost <= MaxFaults
           /\ faults' = faults + cost
    /\ LET r == [req EXCEPT !.extFetches = @ + 1, !.httpLog = Append(@, out),
                            !.asked = Append(@, Asked("extremes", req, station.off))]
           lo == FetchSpan(req, station.off).begin
           hi == FetchSpan(req, station.off).end
           predictions == IF req.httpLog[Len(req.httpLog)] = "status" THEN <<>>
                          ELSE NoaaPredictions(station, lo, hi)
           extremes == IF out = "status" THEN <<>> ELSE NoaaExtremes(station, lo, hi)
           newRecords == [i \in 1..Len(RecordDates(req)) |->
                            NewRecord(station, FormatDate(RecordDates(req)[i], station.off),
                                      predictions, extremes)]
           allRecords == SortBy(req.cached \o newRecords, "date")
       IN  IF HttpFails(out)
           THEN /\ req' = Fail(r, HttpError("extremes", out))
                /\ wb' = wb
           ELSE IF station.stationType = "nil"
           THEN \* *station.StationType dereferences a nil pointer
                /\ req' = [r EXCEPT !.pc = "done", !.result = [kind |-> "panic", err |-> NoErr]]
                /\ wb' = wb
           ELSE /\ req' = Finish([r EXCEPT !.spawned = @ + 1], allRecords)
                /\ wb' = Append(wb, NewTask(req.id, newRecords))
    /\ UNCHANGED <<now, lru, dynamo, stats, ret, station, nreq, cancelled, catVars, concVars>>

\* the caller gives up: the request's context is cancelled
CancelRequest ==
    /\ req.pc # "idle"
    /\ req.id \notin cancelled
    /\ cancelled' = cancelled \cup {req.id}
    /\ UNCHANGED <<now, lru, dynamo, stats, ret, faults, station, req, nreq, wb, catVars, concVars>>

\* ------------------------------------------------ the write-back goroutine
Noted(task) == [task EXCEPT !.afterCancel = task.pc \in {"ok", "failed"} /\ CtxDone(task.req)]

RECURSIVE AddAll(_, _, _)
AddAll(l, records, t) ==
    IF records = <<>> THEN l
    ELSE AddAll(LruAdd(l, NewEntry(Head(records), t)), Tail(records), t)

Min(a, b) == IF a <= b THEN a ELSE b

\* the write requests of the batch starting at record i, stamped at time t
BatchItems(records, i, t) ==
    [j \in 1..(Min(i + BatchSize - 1, Len(records)) - i + 1) |->
        [records[i + j - 1] EXCEPT !.lastUpdated = Unix(t),
                                   !.ttl = Unix(t) + GetDynamoTTLSeconds]]

\* DynamoPredictionCache.SavePredictionsBatch at the head of the batch loop
NextBatch(task, i, t) ==
    IF i > Len(task.records) \/ MaxBatchRetries <= 0
    THEN [task EXCEPT !.pc = "ok", !.items = <<>>]
    ELSE [task EXCEPT !.pc = "write", !.i = i, !.retry = 0,
                      !.items = BatchItems(task.records, i, t)]

RECURSIVE PutAll(_, _)
PutAll(d, items) ==
    IF items = <<>> THEN d
    ELSE PutAll((DynamoKey(Head(items)) :> Head(items)) @@ d, Tail(items))

\* (a batch save that goes to the table only)
WriteBackStartRemoteOnly(k) ==
    /\ wb[k].pc = "start"
    /\ lru' = lru
    /\ wb' = [wb EXCEPT ![k] =
                IF \E j \in 1..Len(@.records) : ~Validate(@.records[j])
                THEN Noted([@ EXCEPT !.pc = "failed", !.err = ErrInvalid])
                ELSE Noted(NextBatch(@, 1, now))]
    /\ UNCHANGED <<now, dynamo, stats, ret, faults, station, req, nreq, cancelled, catVars, concVars>>
\* LRUCacheService.SavePredictionsBatch: the LRU loop, then the validation of
\* DynamoPredictionCache.SavePredictionsBatch
WriteBackStart(k) ==
    /\ wb[k].pc = "start"
    /\ lru' = AddAll(lru, wb[k].records, now)
    /\ wb' = [wb EXCEPT ![k] =
                IF \E j \in 1..Len(@.records) : ~Validate(@.records[j])
                THEN Noted([@ EXCEPT !.pc = "failed", !.err = ErrInvalid])
                ELSE Noted(NextBatch(@, 1, now))]
    /\ UNCHANGED <<now, dynamo, stats, ret, faults, station, req, nreq, cancelled, catVars, concVars>>

\* for retry := 0; retry < c.config.MaxBatchRetries; retry++: the loop is over
\* after n attempts
ExhaustedLate(n) == n > MaxBatchRetries
Exhausted(n) == n >= MaxBatchRetries
\* time.Sleep(time.Duration(1<<retry) * 100 * time.Millisecond), in milliseconds
Backoff(retry) == (2 ^ retry) * 100

\* (an attempt whose final failure is handed to the request)
WriteBackAttemptPropagating(k, out) ==
    /\ wb[k].pc = "write"
    /\ out = "err" => ~CtxDone(wb[k].ctx)
    /\ faults' = faults + FaultCost(out)
    /\ IF Under(wb[k].ctx, out) = "ok"
       THEN /\ dynamo' = PutAll(dynamo, wb[k].items)
            /\ wb' = [wb EXCEPT ![k] = Noted(NextBatch(@, @.i + BatchSize, now))]
            /\ req' = req
       ELSE /\ dynamo' = dynamo
            /\ wb' = [wb EXCEPT ![k] =
                        IF Exhausted(@.retry + 1)
                        THEN Noted([@ EXCEPT !.pc = "failed", !.err = ErrBatch,
                                             !.retry = @ + 1, !.slept = Backoff(wb[k].retry)])
                        ELSE [@ EXCEPT !.retry = @ + 1, !.slept = Backoff(wb[k].retry)]]
            /\ req' = IF wb[k].retry + 1 >= MaxBatchRetries THEN Fail(req, ErrBatch) ELSE req
    /\ UNCHANGED <<now, lru, stats, ret, station, nreq, cancelled, catVars, concVars>>
\* one BatchWriteItem attempt of the retry loop
WriteBackAttempt(k, out) ==
    /\ wb[k].pc = "write"
    /\ out = "err" => ~CtxDone(wb[k].ctx)
    /\ faults' = faults + FaultCost(out)
    /\ IF Under(wb[k].ctx, out) = "ok"
       THEN /\ dynamo' = PutAll(dynamo, wb[k].items)
            /\ wb' = [wb EXCEPT ![k] = Noted(NextBatch(@, @.i + BatchSize, now))]
       ELSE /\ dynamo' = dynamo
            /\ wb' = [wb EXCEPT ![k] =
                        IF Exhausted(@.retry + 1)
                        THEN Noted([@ EXCEPT !.pc = "failed", !.err = ErrBatch,
                                             !.retry = @ + 1, !.slept = Backoff(wb[k].retry)])
                        ELSE [@ EXCEPT !.retry = @ + 1, !.slept = Backoff(wb[k].retry)]]
    /\ UNCHANGED <<now, lru, stats, ret, station, req, nreq, cancelled, catVars, concVars>>

\* ------------------------------------------------------ the tide service
StartStrs == {NilStr, BadStr, WallStr(Day0 * Day)}
EndStrs == {NilStr, BadStr} \cup
           {WallStr(Day0 * Day + x) : x \in {0, Day, MaxRangeDays * Day + Second}}
\* the end times at the limit of the range check: exactly 5 days, and a second more
RangeEndStrs == {WallStr(Day0 * Day + x) : x \in {MaxRangeDays * Day,
                                                  MaxRangeDays * Day + Second}}

\* during a request the clock is observed once more, past the LRU TTL
TickRequest ==
    /\ now = Now0
    /\ now' = Now0 + GetLRUTTL + Second
    /\ UNCHANGED <<lru, dynamo, stats, ret, faults, station, req, nreq, cancelled, wb, catVars, concVars>>

Init ==
    /\ InitCommon
    /\ NoCatalog
    /\ station \in Stations
    /\ \E f \in [SeedDays -> SeedKinds] :
          /\ f[Day0 + 1] \in {"absent", "valid"}
          /\ dynamo = SeedTable(station, f)

\* a caller of the cache service saves a day record before the request arrives
Preseed(record, putOut) ==
    /\ req.pc = "idle"
    /\ nreq < MaxPreseeds
    /\ ApiSavePredictions(record, putOut)

Next ==
    \/ TickRequest
    \/ \E r \in ApiRecords, p \in Outcomes : Preseed(r, p)
    \/ \E found \in BOOLEAN, s \in StartStrs, e \in EndStrs :
          GetCurrentTideForStation(found, s, e)
    \/ \E g \in Outcomes, p \in Outcomes : Probe(g, p)
    \/ \E o \in HttpOutcomes : FetchNoaaPredictions(o)
    \/ \E o \in HttpOutcomes : FetchNoaaExtremes(o)
    \/ CancelRequest
    \/ \E k \in 1..Len(wb) : WriteBackStart(k)
    \/ \E k \in 1..Len(wb), o \in Outcomes : WriteBackAttempt(k, o)

Spec == Init /\ [][Next]_vars

\* the write-back goroutine is scheduled as long as it has a step to take
SpecFair ==
    /\ Spec
    /\ WF_vars(\E k \in 1..Len(wb) : WriteBackStart(k))
    /\ WF_vars(\E k \in 1..Len(wb), o \in Outcomes : WriteBackAttempt(k, o))

\* the service asked for the longest ranges, with no clock step and no cancellation
NextRange ==
    \/ \E found \in BOOLEAN, s \in StartStrs, e \in RangeEndStrs :
          GetCurrentTideForStation(found, s, e)
    \/ \E g \in Outcomes, p \in Outcomes : Probe(g, p)
    \/ \E o \in HttpOutcomes : FetchNoaaPredictions(o)
    \/ \E o \in HttpOutcomes : FetchNoaaExtremes(o)
    \/ \E k \in 1..Len(wb) : WriteBackStart(k)
    \/ \E k \in 1..Len(wb), o \in Outcomes : WriteBackAttempt(k, o)

SpecRange == Init /\ [][NextRange]_vars

\* the service asked for windows that hold the current instant, lie before it
\* or lie after it
WindowStartStrs == {NilStr} \cup {WallStr((Day0 + x) * Day) : x \in {-1, 0, 1}}
WindowEndStrs == {NilStr, WallStr((Day0 + 1) * Day), WallStr((Day0 + 1) * Day - Second)}
NextWindow ==
    \/ TickRequest
    \/ \E s \in WindowStartStrs, e \in WindowEndStrs : GetCurrentTideForStation(TRUE, s, e)
    \/ \E g \in Outcomes, p \in Outcomes : Probe(g, p)
    \/ \E o \in HttpOutcomes : FetchNoaaPredictions(o)
    \/ \E o \in HttpOutcomes : FetchNoaaExtremes(o)

SpecWindow == Init /\ [][NextWindow]_vars

\* ------------------------------------------- the station catalog in use
MaxStationCalls == 2
MaxApiCalls == 3
\* the instants the catalog's clock is observed at
StationClock == {Now0 + x : x \in {0, 1, S3TTLHours * Hour, S3TTLHours * Hour + 1,
                                   S3TTLHours * Hour + Second, GetStationListTTL,
                                   GetStationListTTL + 1, GetStationListTTL + Second}}
\* the catalog the provider lists, and the lists a caller may hand in
UpstreamList == <<"8410140", "9447130">>
Lists == {<<>>, <<"9447130">>, UpstreamList}

Live == {mem.stations, held.got, held.gave, call.stations} \ {NilRef}

StationsTick ==
    /\ \E t \in StationClock : t > now /\ now' = t
    /\ UNCHANGED <<tideVars, catVars, concVars>>

Step(tier, hit, err) == [tier |-> tier, hit |-> hit, err |-> err]

\* getStationList: the memory cache
GetStationListMem ==
    /\ call.pc \in {"idle", "done"}
    /\ call.n < MaxStationCalls
    /\ LET g == GetStations(build, heap, mem, now, Live \ {call.stations})
           hit == g.stations # NilRef
       IN  /\ heap' = g.heap
           /\ call' = [pc |-> IF hit THEN "done" ELSE IF s3.configured THEN "blob" ELSE "upstream",
                       n |-> call.n + 1,
                       trace |-> <<Step("mem", hit, NoErr)>>,
                       stations |-> g.stations, err |-> NoErr]
    /\ UNCHANGED <<now, tideVars, concVars, find, unitVars, build, mem, s3, held>>

\* getStationList: the S3 cache, if there is one
GetStationListBlob(getOut) ==
    /\ call.pc = "blob"
    /\ LET r == S3GetStations(s3, getOut, now)
           hit == r.err = NoErr /\ r.stations # Nil
           a == Alloc(Live)
           h == [heap EXCEPT ![a] = r.stations.list]
           m == SetStations(build, h, mem, a, now, Live \cup {a})
       IN  IF hit
           THEN /\ heap' = m.heap
                /\ mem' = m.mem
                /\ call' = [call EXCEPT !.pc = "done", !.stations = a,
                                        !.trace = Append(@, Step("blob", TRUE, NoErr))]
           ELSE /\ call' = [call EXCEPT !.pc = "upstream",
                                        !.trace = Append(@, Step("blob", FALSE, r.err))]
                /\ UNCHANGED <<heap, mem>>
    /\ UNCHANGED <<now, tideVars, concVars, find, unitVars, build, s3, held>>

\* (an upstream fetch that leaves the memory cache as it was)
GetStationListUpstreamForgetful(out) ==
    /\ call.pc = "upstream"
    /\ LET a == Alloc(Live)
           list == IF out = "status" THEN <<>> ELSE UpstreamList
       IN  IF HttpFails(out)
           THEN /\ call' = [call EXCEPT !.pc = "done", !.err = HttpError("stations", out),
                                        !.trace = Append(@, Step("upstream", FALSE, HttpError("stations", out)))]
                /\ UNCHANGED <<heap, mem, s3>>
           ELSE /\ heap' = [heap EXCEPT ![a] = list]
                /\ mem' = mem
                /\ s3' = IF s3.configured THEN [s3 EXCEPT !.pending = Append(@, list)] ELSE s3
                /\ call' = [call EXCEPT !.pc = "done", !.stations = a,
                                        !.trace = Append(@, Step("upstream", TRUE, NoErr))]
    /\ UNCHANGED <<now, tideVars, concVars, find, unitVars, build, held>>
\* getStationList: the fetch from the provider, the spawn of the save to S3
\* and the update of the memory cache
GetStationListUpstream(out) ==
    /\ call.pc = "upstream"
    /\ LET a == Alloc(Live)
           list == IF out = "status" THEN <<>> ELSE UpstreamList
           h == [heap EXCEPT ![a] = list]
           m == SetStations(build, h, mem, a, now, Live \cup {a})
       IN  IF HttpFails(out)
           THEN /\ call' = [call EXCEPT !.pc = "done", !.err = HttpError("stations", out),
                                        !.trace = Append(@, Step("upstream", FALSE, HttpError("stations", out)))]
                /\ UNCHANGED <<heap, mem, s3>>
           ELSE /\ heap' = m.heap
                /\ mem' = m.mem
                /\ s3' = IF s3.configured THEN [s3 EXCEPT !.pending = Append(@, list)] ELSE s3
                /\ call' = [call EXCEPT !.pc = "done", !.stations = a,
                                        !.trace = Append(@, Step("upstream", TRUE, NoErr))]
    /\ UNCHANGED <<now, tideVars, concVars, find, unitVars, build, held>>

\* go func() { f.s3Cache.SaveStations(context.Background(), stations) }()
S3SaveRun(putOut) ==
    /\ s3.pending # <<>>
    /\ s3' = [S3SaveStations(s3, Head(s3.pending), putOut, now).s3 EXCEPT !.pending = Tail(@)]
    /\ UNCHANGED <<now, tideVars, concVars, find, unitVars, build, heap, mem, call, held>>

\* a caller of StationCache reads the catalog
ApiGetStations ==
    /\ held.n < MaxApiCalls
    /\ LET g == GetStations(build, heap, mem, now, Live \ {held.got})
       IN  /\ heap' = g.heap
           /\ held' = [held EXCEPT !.n = @ + 1, !.op = "get", !.got = g.stations]
    /\ UNCHANGED <<now, tideVars, concVars, find, unitVars, build, mem, s3, call>>

\* a caller of StationCache stores a list of its own
ApiSetStations(list) ==
    /\ held.n < MaxApiCalls
    /\ LET a == Alloc(Live \ {held.gave})
           h == [heap EXCEPT ![a] = list]
           m == SetStations(build, h, mem, a, now, (Live \ {held.gave}) \cup {a})
       IN  /\ heap' = m.heap
           /\ mem' = m.mem
           /\ held' = [held EXCEPT !.n = @ + 1, !.op = "set", !.gave = a]
    /\ UNCHANGED <<now, tideVars, concVars, find, unitVars, build, s3, call>>

\* the caller overwrites the first element of a slice it holds: the one
\* GetStations returned or the one it passed to SetStations
CallerOverwrite(which) ==
    /\ held[which] # NilRef
    /\ heap[held[which]] # <<>>
    /\ heap[held[which]][1] # Scribble
    /\ heap' = [heap EXCEPT ![held[which]][1] = Scribble]
    /\ held' = [held EXCEPT !.op = "write"]
    /\ UNCHANGED <<now, tideVars, concVars, find, unitVars, build, mem, s3, call>>

\* a caller of S3StationCache reads the stored list
ApiS3GetStations(getOut) ==
    /\ held.n < MaxApiCalls
    /\ held' = [held EXCEPT !.n = @ + 1, !.op = "s3get", !.out = getOut,
                            !.s3ret = S3GetStations(s3, getOut, now)]
    /\ UNCHANGED <<now, tideVars, concVars, find, unitVars, build, heap, mem, s3, call>>

\* a caller of S3StationCache saves a list
ApiS3SaveStations(list, putOut) ==
    /\ held.n < MaxApiCalls
    /\ LET r == S3SaveStations(s3, list, putOut, now)
       IN  /\ s3' = r.s3
           /\ held' = [held EXCEPT !.n = @ + 1, !.op = "s3save", !.out = putOut,
                                   !.s3ret = [stations |-> Nil, err |-> r.err]]
    /\ UNCHANGED <<now, tideVars, concVars, find, unitVars, build, heap, mem, call>>

\* either build of the catalog, with or without an S3 cache, whose bucket
\* may hold nothing or something that is no cache record
InitStations ==
    /\ InitCommon
    /\ InitCatalog
    /\ station = [id |-> StationID, off |-> 0, stationType |-> "R"]
    /\ dynamo = SeedTable(station, [d \in SeedDays |-> "absent"])
    /\ build \in {"internal", "backend-go"}
    /\ \E configured \in BOOLEAN, bucketName \in {"", "stations"}, object \in {Nil, Garbage} :
          /\ build = "backend-go" => ~configured
          /\ s3 = [configured |-> configured, bucketName |-> bucketName,
                   object |-> object, pending |-> <<>>]

NextStations ==
    \/ StationsTick
    \/ GetStationListMem
    \/ \E g \in Outcomes : GetStationListBlob(g)
    \/ \E o \in HttpOutcomes : GetStationListUpstream(o)
    \/ \E p \in Outcomes : S3SaveRun(p)

SpecStations == InitStations /\ [][NextStations]_vars

\* the two caches of the catalog called directly
NextStationCaches ==
    \/ StationsTick
    \/ ApiGetStations
    \/ \E l \in Lists : ApiSetStations(l)
    \/ \E w \in {"got", "gave"} : CallerOverwrite(w)
    \/ \E g \in Outcomes : ApiS3GetStations(g)
    \/ \E l \in Lists, p \in Outcomes : ApiS3SaveStations(l, p)

SpecStationCaches == InitStations /\ [][NextStationCaches]_vars

\* --------------------------------------------------- the nearest stations
MaxFinds == 2
QueryLats == {-91, 47, 48, 91}
QueryLons == {-181, StationLon, 181}
QueryLimits == {-1, 0, 1, 2, 5}
\* the orders the memory cache may hold the catalog in
Catalogs == {<<"8410140", "9447130">>, <<"9447130", "8410140">>,
             <<"9447130", "1612340", "8410140">>, <<"1612340">>}

\* FindNearestStations up to its call of getStationList
FindNearestStations(lat, lon, limit) ==
    /\ find.pc \in {"idle", "done"}
    /\ find.n < MaxFinds
    /\ call.pc \in {"idle", "done"}
    /\ call.n < MaxStationCalls
    /\ LET e == CoordinateError(lat, lon)
       IN  find' = [pc |-> IF e = NoErr THEN "list" ELSE "done", n |-> find.n + 1,
                    since |-> call.n, lat |-> lat, lon |-> lon, limit |-> limit,
                    catalog |-> <<>>, stations |-> Nil, err |-> e]
    /\ UNCHANGED <<now, tideVars, concVars, unitVars, build, heap, mem, s3, call, held>>

\* FindNearestStations from the return of getStationList
FindNearestReturn ==
    /\ find.pc = "list"
    /\ call.pc = "done"
    /\ call.n = find.since + 1
    /\ find' = IF call.err # NoErr
               THEN [find EXCEPT !.pc = "done", !.err = ErrStationList]
               ELSE [find EXCEPT !.pc = "done", !.catalog = heap[call.stations],
                                 !.stations = Some(NearestOf(heap[call.stations], find.lat, find.lon, find.limit))]
    /\ UNCHANGED <<now, tideVars, concVars, unitVars, build, heap, mem, s3, call, held>>

\* a finder whose memory cache holds a catalog in some order, or nothing
InitFinder ==
    /\ InitCommon
    /\ station = [id |-> StationID, off |-> 0, stationType |-> "R"]
    /\ dynamo = SeedTable(station, [d \in SeedDays |-> "absent"])
    /\ build = "internal"
    /\ s3 = [configured |-> FALSE, bucketName |-> "", object |-> Nil, pending |-> <<>>]
    /\ call = [pc |-> "idle", n |-> 0, trace |-> <<>>, stations |-> NilRef, err |-> NoErr]
    /\ held = [n |-> 0, op |-> "none", out |-> "ok", got |-> NilRef, gave |-> NilRef,
               s3ret |-> [stations |-> Nil, err |-> NoErr]]
    /\ find = NoFind
    /\ interp = NoInterp
    /\ batch = NoBatch
    /\ pool = NoPool
    /\ \E c \in Catalogs \cup {<<>>} :
          /\ heap = [r \in Refs |-> IF r = 1 THEN c ELSE <<>>]
          /\ mem = [stations |-> 1, lastUpdated |-> IF c = <<>> THEN ZeroTime ELSE now]

NextFinder ==
    \/ \E lat \in QueryLats, lon \in QueryLons, limit \in QueryLimits : FindNearestStations(lat, lon, limit)
    \/ find.pc = "list" /\ call.n = find.since /\ GetStationListMem
    \/ \E o \in HttpOutcomes : GetStationListUpstream(o)
    \/ FindNearestReturn

SpecFinder == InitFinder /\ [][NextFinder]_vars

\* ------------------------------------------------------ the interpolation
MaxKnots == 3
\* the timestamps of the knots, the heights they may have and the timestamps
\* asked for
KnotTimes == <<2, 8, 12, 13>>
KnotHeights == {-24, -7, -5, 0, 3, 9, 12, 20}
QueryTimes == 0..14
Series == UNION {{[i \in 1..n |-> [t |-> KnotTimes[i], h |-> hs[i]]] : hs \in [1..n -> KnotHeights]} :
                 n \in 0..MaxKnots}

\* one call of interpolatePredictions and one of interpolateExtremes on the
\* same sorted series
Interpolate(timestamp) ==
    /\ interp' = [interp EXCEPT !.n = 1, !.timestamp = timestamp,
                                !.linear = interpolatePredictions(interp.knots, timestamp),
                                !.hermite = interpolateExtremes(interp.knots, timestamp)]
    /\ UNCHANGED <<now, tideVars, concVars, find, batch, pool, build, heap, mem, s3, call, held>>

InitInterp ==
    /\ InitCommon
    /\ station = [id |-> StationID, off |-> 0, stationType |-> "R"]
    /\ dynamo = SeedTable(station, [d \in SeedDays |-> "absent"])
    /\ build = "internal"
    /\ s3 = [configured |-> FALSE, bucketName |-> "", object |-> Nil, pending |-> <<>>]
    /\ heap = [r \in Refs |-> <<>>]
    /\ mem = [stations |-> 1, lastUpdated |-> ZeroTime]
    /\ call = [pc |-> "idle", n |-> 0, trace |-> <<>>, stations |-> NilRef, err |-> NoErr]
    /\ held = [n |-> 0, op |-> "none", out |-> "ok", got |-> NilRef, gave |-> NilRef,
               s3ret |-> [stations |-> Nil, err |-> NoErr]]
    /\ find = NoFind
    /\ \E k \in Series : interp = [NoInterp EXCEPT !.knots = k]
    /\ batch = NoBatch
    /\ pool = NoPool

NextInterp == \E ts \in QueryTimes : Interpolate(ts)

SpecInterp == InitInterp /\ [][NextInterp]_vars

\* series sorted by time in which timestamps may repeat
TieTimes == {2, 5, 9}
TieHeights == {0, 8}
TiedSeries ==
    UNION {{k \in [1..n -> [t : TieTimes, h : TieHeights]] :
               \A i \in 1..(n - 1) : k[i].t <= k[i + 1].t} :
           n \in 0..MaxKnots}

InitTies ==
    /\ InitCommon
    /\ station = [id |-> StationID, off |-> 0, stationType |-> "R"]
    /\ dynamo = SeedTable(station, [d \in SeedDays |-> "absent"])
    /\ build = "internal"
    /\ s3 = [configured |-> FALSE, bucketName |-> "", object |-> Nil, pending |-> <<>>]
    /\ heap = [r \in Refs |-> <<>>]
    /\ mem = [stations |-> 1, lastUpdated |-> ZeroTime]
    /\ call = [pc |-> "idle", n |-> 0, trace |-> <<>>, stations |-> NilRef, err |-> NoErr]
    /\ held = [n |-> 0, op |-> "none", out |-> "ok", got |-> NilRef, gave |-> NilRef,
               s3ret |-> [stations |-> Nil, err |-> NoErr]]
    /\ find = NoFind
    /\ \E k \in TiedSeries : interp = [NoInterp EXCEPT !.knots = k]
    /\ batch = NoBatch
    /\ pool = NoPool

SpecTies == InitTies /\ [][NextInterp]_vars

\* ------------------------- DynamoPredictionCache.SavePredictionsBatch, alone
MaxBatchRecords == 3
\* the ghost counters of a call stop counting here
MaxBatchCalls == 4
\* CACHE_BATCH_SIZE and CACHE_MAX_BATCH_RETRIES: getEnvInt takes any integer
BatchSizes == {-1, 0, 1, 2, 3}
RetryLimits == {-1, 0, 1, 2}
BatchRecord(d, id) == [stationID |-> id, date |-> d, stationType |-> "R",
                       predictions |-> <<>>, extremes |-> <<>>, lastUpdated |-> 0, ttl |-> 0]
\* the record lists handed in: n valid records of consecutive days, and the
\* same with an invalid last record
BatchInputs ==
    UNION {{[j \in 1..n |-> BatchRecord(Day0 + j - 1, StationID)],
            [j \in 1..n |-> BatchRecord(Day0 + j - 1, IF j = n THEN "" ELSE StationID)]} :
           n \in 0..MaxBatchRecords}
Saturating(n) == IF n < MaxBatchCalls THEN n + 1 ELSE n

\* (an end that takes one record more)
BatchEndOverlapping(i, batchSize, n) ==
    IF i + batchSize + 1 > n THEN n ELSE i + batchSize + 1
\* end := i + batchSize; if end > len(records) { end = len(records) }
BatchEnd(i, batchSize, n) ==
    IF i + batchSize > n THEN n ELSE i + batchSize
\* the write requests of records[i:end], stamped at time t
BatchItemsOf(records, i, end, t) ==
    [j \in 1..(end - i) |->
        [records[i + j] EXCEPT !.lastUpdated = Unix(t),
                               !.ttl = Unix(t) + GetDynamoTTLSeconds]]

\* the validation loop at the head of SavePredictionsBatch
SavePredictionsBatchValidate ==
    /\ batch.pc = "call"
    /\ batch' = IF \E j \in 1..Len(batch.records) : ~Validate(batch.records[j])
                THEN [batch EXCEPT !.pc = "failed", !.err = ErrInvalid]
                ELSE [batch EXCEPT !.pc = "loop", !.i = 0]
    /\ UNCHANGED <<now, tideVars, concVars, find, interp, pool, build, heap, mem, s3, call, held>>

\* for i := 0; i < len(records); i += batchSize: the test of the loop and the
\* cut of batch := records[i:end], which panics when end < i
SavePredictionsBatchCut ==
    /\ batch.pc = "loop"
    /\ LET n == Len(batch.records)
           end == BatchEnd(batch.i, batch.cfg.BatchSize, n)
       IN  batch' =
             IF batch.i >= n THEN [batch EXCEPT !.pc = "ok"]
             ELSE IF end < batch.i THEN [batch EXCEPT !.pc = "panic"]
             ELSE LET items == BatchItemsOf(batch.records, batch.i, end, now)
                  IN  [batch EXCEPT !.pc = "retry", !.retry = 0, !.lastErr = NoErr,
                                    !.items = items,
                                    !.cuts = IF Len(@) <= n THEN Append(@, items) ELSE @]
    /\ UNCHANGED <<now, tideVars, concVars, find, interp, pool, build, heap, mem, s3, call, held>>

\* one pass of for retry := 0; retry < c.config.MaxBatchRetries; retry++: a
\* BatchWriteItem request with outcome out; a failure sleeps and goes round,
\* a success breaks, and after the break the batch loop steps by batchSize
SavePredictionsBatchAttempt(out) ==
    /\ batch.pc = "retry"
    /\ batch.retry < batch.cfg.MaxBatchRetries
    /\ LET held_ == {batch.i + j : j \in 1..Len(batch.items)}
           counted == [batch EXCEPT !.sent = [j \in DOMAIN @ |-> IF j \in held_ THEN @[j] + 1 ELSE @[j]]]
       IN  IF out = "ok"
           THEN /\ dynamo' = PutAll(dynamo, batch.items)
                /\ batch' = [counted EXCEPT
                               !.written = [j \in DOMAIN @ |-> IF j \in held_ THEN @[j] + 1 ELSE @[j]],
                               !.successes = Saturating(@),
                               !.lastErr = NoErr,
                               !.i = @ + batch.cfg.BatchSize,
                               !.pc = "loop"]
           ELSE /\ dynamo' = dynamo
                /\ batch' = [counted EXCEPT !.failures = Saturating(@),
                                            !.lastErr = ErrBatch,
                                            !.retry = @ + 1]
    /\ UNCHANGED <<now, lru, stats, ret, faults, station, req, nreq, cancelled, wb,
                   concVars, find, interp, pool, build, heap, mem, s3, call, held>>

\* the retry loop is over without a break: if lastErr != nil the call returns
\* the error, else the batch loop steps by batchSize
SavePredictionsBatchAfterRetries ==
    /\ batch.pc = "retry"
    /\ ~(batch.retry < batch.cfg.MaxBatchRetries)
    /\ batch' = IF batch.lastErr # NoErr
                THEN [batch EXCEPT !.pc = "failed", !.err = ErrBatch]
                ELSE [batch EXCEPT !.pc = "loop", !.i = @ + batch.cfg.BatchSize]
    /\ UNCHANGED <<now, tideVars, concVars, find, interp, pool, build, heap, mem, s3, call, held>>

InitBatch ==
    /\ InitCommon
    /\ station = [id |-> StationID, off |-> 0, stationType |-> "R"]
    /\ dynamo = SeedTable(station, [d \in SeedDays |-> "absent"])
    /\ build = "internal"
    /\ s3 = [configured |-> FALSE, bucketName |-> "", object |-> Nil, pending |-> <<>>]
    /\ heap = [r \in Refs |-> <<>>]
    /\ mem = [stations |-> 1, lastUpdated |-> ZeroTime]
    /\ call = [pc |-> "idle", n |-> 0, trace |-> <<>>, stations |-> NilRef, err |-> NoErr]
    /\ held = [n |-> 0, op |-> "none", out |-> "ok", got |-> NilRef, gave |-> NilRef,
               s3ret |-> [stations |-> Nil, err |-> NoErr]]
    /\ find = NoFind
    /\ interp = NoInterp
    /\ pool = NoPool
    /\ \E size \in BatchSizes, retries \in RetryLimits, records \in BatchInputs :
          batch = [NoBatch EXCEPT !.pc = "call",
                                  !.cfg = [BatchSize |-> size, MaxBatchRetries |-> retries],
                                  !.records = records,
                                  !.sent = [j \in 1..Len(records) |-> 0],
                                  !.written = [j \in 1..Len(records) |-> 0]]

NextSaveBatch ==
    \/ SavePredictionsBatchValidate
    \/ SavePredictionsBatchCut
    \/ \E o \in Outcomes : SavePredictionsBatchAttempt(o)
    \/ SavePredictionsBatchAfterRetries

SpecBatch == InitBatch /\ [][NextSaveBatch]_vars
\* the goroutine running the call is scheduled as long as it has a step to take
SpecBatchFair == SpecBatch /\ WF_vars(NextSaveBatch)

\* ------------------------------------- FindNearestStations with its workers
MaxPoolStations == 3
PoolLats == {47, 48}
PoolLimits == {0, 2}
\* the catalogs getStationList returns: the first n stations, each with or
\* without a station type
PoolStations == <<[id |-> "9447130", lat |-> 48], [id |-> "9447819", lat |-> 47],
                  [id |-> "8410140", lat |-> 45], [id |-> "1612340", lat |-> 21]>>
PoolCatalogs ==
    UNION {{[i \in 1..n |-> [id |-> PoolStations[i].id, lat |-> PoolStations[i].lat,
                             lon |-> StationLon, stationType |-> types[i]]] :
               types \in [1..n -> {"R", "nil"}]} :
           n \in 0..MaxPoolStations}

\* for _, station := range stations { work <- station }
PoolSendWork ==
    /\ pool.pc = "send"
    /\ pool.idx <= Len(pool.catalog)
    /\ Len(pool.work) < Len(pool.catalog)
    /\ pool' = [pool EXCEPT !.work = Append(@, pool.catalog[pool.idx]), !.idx = @ + 1]
    /\ UNCHANGED <<now, tideVars, concVars, find, interp, batch, build, heap, mem, s3, call, held>>

\* close(work), and go func() { wg.Wait(); close(results) }()
PoolCloseWork ==
    /\ pool.pc = "send"
    /\ pool.idx > Len(pool.catalog)
    /\ pool' = [pool EXCEPT !.workClosed = TRUE, !.closer = "wait", !.pc = "collect"]
    /\ UNCHANGED <<now, tideVars, concVars, find, interp, batch, build, heap, mem, s3, call, held>>

\* a worker at for station := range work: it takes a station and computes its
\* distance, or leaves the loop when work is closed and drained (wg.Done)
WorkerReceive(w) ==
    /\ pool.workers[w].pc = "range"
    /\ IF pool.work # <<>>
       THEN LET st == Head(pool.work)
                d == calculateDistance(pool.lat, pool.lon, st.lat, st.lon)
            IN  pool' = [pool EXCEPT !.work = Tail(@),
                                     !.workers[w] = [pc |-> "result",
                                                     station |-> [id |-> st.id, distance |-> d,
                                                                  stationType |-> st.stationType]]]
       ELSE /\ pool.workClosed
            /\ pool' = [pool EXCEPT !.workers[w] = [pc |-> "done", station |-> Nil],
                                    !.wg = @ - 1]
    /\ UNCHANGED <<now, tideVars, concVars, find, interp, batch, build, heap, mem, s3, call, held>>

\* results <- station
WorkerSend(w) ==
    /\ pool.workers[w].pc = "result"
    /\ Len(pool.results) < Len(pool.catalog)
    /\ pool' = [pool EXCEPT !.results = Append(@, pool.workers[w].station),
                            !.workers[w] = [pc |-> "range", station |-> Nil]]
    /\ UNCHANGED <<now, tideVars, concVars, find, interp, batch, build, heap, mem, s3, call, held>>

\* wg.Wait() returns; close(results)
PoolCloseResults ==
    /\ pool.closer = "wait"
    /\ pool.wg = 0
    /\ pool' = [pool EXCEPT !.resultsClosed = TRUE, !.closer = "done"]
    /\ UNCHANGED <<now, tideVars, concVars, find, interp, batch, build, heap, mem, s3, call, held>>

\* for station := range results: the Trace line evaluates
\* *station.StationType, then the station is appended; after the loop the
\* sort and the limit
PoolCollect ==
    /\ pool.pc = "collect"
    /\ IF pool.results # <<>>
       THEN LET st == Head(pool.results)
            IN  pool' = IF st.stationType = "nil"
                        THEN [pool EXCEPT !.results = Tail(@), !.pc = "panic"]
                        ELSE [pool EXCEPT !.results = Tail(@),
                                          !.collected = Append(@, [id |-> st.id,
                                                                   distance |-> st.distance])]
       ELSE /\ pool.resultsClosed
            /\ pool' = [pool EXCEPT !.pc = "done",
                                    !.stations = Some(PoolLimit(SortByDistance(pool.collected),
                                                                pool.limit))]
    /\ UNCHANGED <<now, tideVars, concVars, find, interp, batch, build, heap, mem, s3, call, held>>

\* after getStationList, make(chan ..., len(stations)) twice and the spawn of
\* the workers
InitPool ==
    /\ InitCommon
    /\ station = [id |-> StationID, off |-> 0, stationType |-> "R"]
    /\ dynamo = SeedTable(station, [d \in SeedDays |-> "absent"])
    /\ build = "internal"
    /\ s3 = [configured |-> FALSE, bucketName |-> "", object |-> Nil, pending |-> <<>>]
    /\ heap = [r \in Refs |-> <<>>]
    /\ mem = [stations |-> 1, lastUpdated |-> ZeroTime]
    /\ call = [pc |-> "idle", n |-> 0, trace |-> <<>>, stations |-> NilRef, err |-> NoErr]
    /\ held = [n |-> 0, op |-> "none", out |-> "ok", got |-> NilRef, gave |-> NilRef,
               s3ret |-> [stations |-> Nil, err |-> NoErr]]
    /\ find = NoFind
    /\ interp = NoInterp
    /\ batch = NoBatch
    /\ \E c \in PoolCatalogs, lat \in PoolLats, limit \in PoolLimits :
          pool = [NoPool EXCEPT !.pc = "send", !.catalog = c, !.lat = lat, !.lon = StationLon,
                                !.limit = limit, !.wg = workerCount]

NextPool ==
    \/ PoolSendWork
    \/ PoolCloseWork
    \/ \E w \in Workers : WorkerReceive(w)
    \/ \E w \in Workers : WorkerSend(w)
    \/ PoolCloseResults
    \/ PoolCollect

SpecPool == InitPool /\ [][NextPool]_vars
\* a goroutine that can take a step is scheduled in the end
SpecPoolFair == SpecPool /\ WF_vars(NextPool)

\* ------------------------------- the cache service under concurrent callers
\* the day every goroutine asks for and the record it saves
ThreadKey == getCacheKey(StationID, Day0)
ThreadRecord == SeedRecord(station, Day0, "valid")
ThreadOps == {"get", "save", "stats"}
Counters == {"lruHits", "lruMisses", "dynamoHits", "dynamoMisses"}
OtherThreads == <<now, ret, faults, station, req, nreq, cancelled, wb, catVars>>

\* the calls begun so far, by all goroutines together
CallsBegun == Cardinality({t \in Threads : thr[t].pc # "idle"}) +
              Cardinality({<<t, i>> \in Threads \X (1..MaxThreadCalls) : i <= thr[t].calls})

\* a goroutine calls GetPredictions, SavePredictions or GetCacheStats
ThreadCall(t, op) ==
    /\ thr[t].pc = "idle"
    /\ CallsBegun < MaxThreadCalls
    /\ thr' = [thr EXCEPT ![t] = [IdleThread EXCEPT
                  !.calls = thr[t].calls, !.gets = thr[t].gets, !.op = op,
                  !.pc = IF op = "get" THEN "lookup" ELSE IF op = "save" THEN "add" ELSE "rlock"]]
    /\ UNCHANGED <<lru, dynamo, stats, statsMutex, statsSeen, OtherThreads>>

\* GetPredictions: c.lru.Get(key) and the test of entry.ExpiresAt
ThreadLruGet(t) ==
    /\ thr[t].pc = "lookup"
    /\ lru' = LruGet(lru, ThreadKey)
    /\ thr' = [thr EXCEPT ![t] =
                  IF LruFresh(lru, ThreadKey, now)
                  THEN Increment([@ EXCEPT !.rec = LruPeek(lru, ThreadKey).data], "lruHits", "return")
                  ELSE IF LruContains(lru, ThreadKey) THEN [@ EXCEPT !.pc = "remove"]
                  ELSE Increment(@, "lruMisses", "remote")]
    /\ UNCHANGED <<dynamo, stats, statsMutex, statsSeen, OtherThreads>>

\* GetPredictions: c.lru.Remove(key) of the expired entry
ThreadLruRemove(t) ==
    /\ thr[t].pc = "remove"
    /\ lru' = LruRemove(lru, ThreadKey)
    /\ thr' = [thr EXCEPT ![t] = Increment(@, "lruMisses", "remote")]
    /\ UNCHANGED <<dynamo, stats, statsMutex, statsSeen, OtherThreads>>

\* increment*: c.statsMutex.Lock()
ThreadLock(t) ==
    /\ thr[t].pc = "lock"
    /\ CanLock(statsMutex)
    /\ statsMutex' = [statsMutex EXCEPT !.writer = t]
    /\ thr' = [thr EXCEPT ![t].pc = "load"]
    /\ UNCHANGED <<lru, dynamo, stats, statsSeen, OtherThreads>>

\* increment*: the read of c.counter++
ThreadLoad(t) ==
    /\ thr[t].pc = "load"
    /\ thr' = [thr EXCEPT ![t].pc = "store", ![t].reg = stats[thr[t].counter]]
    /\ UNCHANGED <<lru, dynamo, stats, statsMutex, statsSeen, OtherThreads>>

\* increment*: the write of c.counter++
ThreadStore(t) ==
    /\ thr[t].pc = "store"
    /\ stats' = [stats EXCEPT ![thr[t].counter] = thr[t].reg + 1]
    /\ statsSeen' = statsSeen \cup {stats'}
    /\ thr' = [thr EXCEPT ![t].pc = "unlock"]
    /\ UNCHANGED <<lru, dynamo, statsMutex, OtherThreads>>

\* increment*: c.statsMutex.Unlock()
ThreadUnlock(t) ==
    /\ thr[t].pc = "unlock"
    /\ statsMutex' = [statsMutex EXCEPT !.writer = IF @ = t THEN 0 ELSE @]
    /\ thr' = [thr EXCEPT ![t].pc = thr[t].next]
    /\ UNCHANGED <<lru, dynamo, stats, statsSeen, OtherThreads>>

\* GetPredictions: c.dynamoCache.GetPredictions
ThreadRemoteGet(t, getOut) ==
    /\ thr[t].pc = "remote"
    /\ faults + FaultCost(getOut) <= MaxFaults
    /\ faults' = faults + FaultCost(getOut)
    /\ LET g == DynamoGetPredictions(dynamo, StationID, Day0, now, getOut)
       IN  thr' = [thr EXCEPT ![t] =
                     IF g.err # NoErr THEN [@ EXCEPT !.pc = "return", !.err = g.err]
                     ELSE IF g.rec # Nil
                     THEN Increment([@ EXCEPT !.rec = g.rec], "dynamoHits", "add")
                     ELSE Increment(@, "dynamoMisses", "return")]
    /\ UNCHANGED <<lru, dynamo, stats, statsMutex, statsSeen, now, ret, station, req, nreq,
                   cancelled, wb, catVars>>

\* SavePredictions: Validate and c.lru.Add
ThreadLruAdd(t) ==
    /\ thr[t].pc = "add"
    /\ LET record == IF thr[t].op = "get" THEN thr[t].rec ELSE ThreadRecord
       IN  IF Validate(record)
           THEN /\ lru' = LruAdd(lru, NewEntry(record, now))
                /\ thr' = [thr EXCEPT ![t].pc = "put", ![t].rec = record]
           ELSE /\ lru' = lru
                /\ thr' = [thr EXCEPT ![t].pc = "return", ![t].err = ErrInvalid, ![t].rec = Nil]
    /\ UNCHANGED <<dynamo, stats, statsMutex, statsSeen, OtherThreads>>

\* SavePredictions: c.dynamoCache.SavePredictions
ThreadRemotePut(t, putOut) ==
    /\ thr[t].pc = "put"
    /\ faults + FaultCost(putOut) <= MaxFaults
    /\ faults' = faults + FaultCost(putOut)
    /\ LET w == DynamoSavePredictions(dynamo, thr[t].rec, now, putOut)
       IN  /\ dynamo' = w.dynamo
           /\ thr' = [thr EXCEPT ![t].pc = "return", ![t].err = w.err,
                                 ![t].rec = IF w.err = NoErr THEN @ ELSE Nil]
    /\ UNCHANGED <<lru, stats, statsMutex, statsSeen, now, ret, station, req, nreq,
                   cancelled, wb, catVars>>

\* GetCacheStats: c.statsMutex.RLock()
ThreadRLock(t) ==
    /\ thr[t].pc = "rlock"
    /\ CanRLock(statsMutex)
    /\ statsMutex' = [statsMutex EXCEPT !.readers = @ + 1]
    /\ thr' = [thr EXCEPT ![t].pc = "readLru"]
    /\ UNCHANGED <<lru, dynamo, stats, statsSeen, OtherThreads>>

\* GetCacheStats: the reads of c.lruHits and c.lruMisses
ThreadReadLru(t) ==
    /\ thr[t].pc = "readLru"
    /\ thr' = [thr EXCEPT ![t].pc = "readDynamo",
                          ![t].snapshot = [lruHits |-> stats.lruHits, lruMisses |-> stats.lruMisses]]
    /\ UNCHANGED <<lru, dynamo, stats, statsMutex, statsSeen, OtherThreads>>

\* GetCacheStats: the reads of c.dynamoHits and c.dynamoMisses
ThreadReadDynamo(t) ==
    /\ thr[t].pc = "readDynamo"
    /\ thr' = [thr EXCEPT ![t].pc = "runlock",
                          ![t].snapshot = [lruHits |-> @.lruHits, lruMisses |-> @.lruMisses,
                                           dynamoHits |-> stats.dynamoHits,
                                           dynamoMisses |-> stats.dynamoMisses]]
    /\ UNCHANGED <<lru, dynamo, stats, statsMutex, statsSeen, OtherThreads>>

\* GetCacheStats: the deferred c.statsMutex.RUnlock()
ThreadRUnlock(t) ==
    /\ thr[t].pc = "runlock"
    /\ statsMutex' = [statsMutex EXCEPT !.readers = @ - 1]
    /\ thr' = [thr EXCEPT ![t].pc = "return"]
    /\ UNCHANGED <<lru, dynamo, stats, statsSeen, OtherThreads>>

\* the call returns to the goroutine
ThreadReturn(t) ==
    /\ thr[t].pc = "return"
    /\ thr' = [thr EXCEPT ![t].pc = "idle", ![t].calls = @ + 1,
                          ![t].gets = IF thr[t].op = "get" THEN @ + 1 ELSE @]
    /\ UNCHANGED <<lru, dynamo, stats, statsMutex, statsSeen, OtherThreads>>

\* the clock passes the LRU TTL while the goroutines run
ThreadTick ==
    /\ now = Now0
    /\ now' = Now0 + GetLRUTTL + Second
    /\ UNCHANGED <<tideVars, catVars, concVars>>

InitThreads ==
    /\ InitCommon
    /\ NoCatalog
    /\ station = [id |-> StationID, off |-> 0, stationType |-> "R"]
    /\ \E kind \in {"absent", "valid"} :
          dynamo = SeedTable(station, [d \in SeedDays |-> IF d = Day0 THEN kind ELSE "absent"])

NextThreads ==
    \/ ThreadTick
    \/ \E t \in Threads, op \in ThreadOps : ThreadCall(t, op)
    \/ \E t \in Threads : ThreadLruGet(t)
    \/ \E t \in Threads : ThreadLruRemove(t)
    \/ \E t \in Threads : ThreadLock(t)
    \/ \E t \in Threads : ThreadLoad(t)
    \/ \E t \in Threads : ThreadStore(t)
    \/ \E t \in Threads : ThreadUnlock(t)
    \/ \E t \in Threads, g \in Outcomes : ThreadRemoteGet(t, g)
    \/ \E t \in Threads : ThreadLruAdd(t)
    \/ \E t \in Threads, p \in Outcomes : ThreadRemotePut(t, p)
    \/ \E t \in Threads : ThreadRLock(t)
    \/ \E t \in Threads : ThreadReadLru(t)
    \/ \E t \in Threads : ThreadReadDynamo(t)
    \/ \E t \in Threads : ThreadRUnlock(t)
    \/ \E t \in Threads : ThreadReturn(t)

SpecThreads == InitThreads /\ [][NextThreads]_vars

\* ================================================================ properties
ReqStarted == req.pc # "idle"
ReqDone == ReqStarted /\ req.pc = "done"
ReqErr == IF ReqDone THEN req.result.err ELSE NoErr
ReqOk == ReqDone /\ req.result.kind = "ok"
\* the step is a direct GetPredictions call of the cache service
GetStep == nreq' = nreq + 1 /\ ret'.op = "get"
\* the local day of the i-th enumerated date
DayOf(i) == FormatDate(req.dates[i], station.off)

\* C1: a request issues no upstream fetch as long as no probed day is missing,
\* and never more than one predictions fetch and one extremes fetch, however
\* many days are missing and wherever they lie.
UpstreamFetchesBounded ==
    ReqStarted =>
        /\ req.predFetches <= 1
        /\ req.extFetches <= 1
        /\ Len(req.httpLog) = req.predFetches + req.extFetches
        /\ req.missing = <<>> => req.predFetches + req.extFetches = 0
\* two missing days around a cached one, served by two fetches
TwoFetchesForScatteredDays ==
    /\ ReqOk
    /\ Len(req.missing) = 2
    /\ Len(req.cached) = 1
    /\ FormatDate(req.missing[2], station.off) = FormatDate(req.missing[1], station.off) + 2
    /\ req.predFetches = 1
    /\ req.extFetches = 1

\* C2: a request is rejected with "date range cannot exceed 5 days" exactly
\* when its parsed end lies more than 5 days after its parsed start; the
\* rejected request has probed nothing, fetched nothing and spawned no
\* write-back, and from the rejection on neither tier nor the statistics change.
RangeError == "date range cannot exceed 5 days"
RangeParsed == ReqDone /\ ReqErr \notin {"finding localStation", "parsing start time",
                                          "parsing end time"}
RangeRejectedUntouched ==
    /\ RangeParsed => (req.end - req.start > MaxRangeDays * Day <=> ReqErr = RangeError)
    /\ ReqErr = RangeError =>
          /\ req.idx = 1 /\ req.probeLog = <<>>
          /\ req.cached = <<>> /\ req.missing = <<>>
          /\ req.predFetches = 0 /\ req.extFetches = 0
          /\ req.spawned = 0 /\ wb = <<>>
          /\ stats.lruHits + stats.lruMisses + stats.dynamoHits + stats.dynamoMisses = 0
RangeRejectedBeforeProbe ==
    /\ []RangeRejectedUntouched
    /\ [][ReqErr' = RangeError => lru' = lru /\ dynamo' = dynamo /\ stats' = stats]_vars
\* a range of 5 days and one second is rejected over a table that holds records
RangeJustOverRejected ==
    /\ ReqErr = RangeError
    /\ req.end - req.start = MaxRangeDays * Day + Second
    /\ DOMAIN dynamo # {}
\* (the accepted case) a range of exactly 5 days ran to a response
RangeOfFiveDaysAccepted ==
    /\ ReqOk
    /\ req.end - req.start = MaxRangeDays * Day

\* C3: once an upstream fetch has failed (transport error or undecodable
\* body) the request is over with that error, no write-back task exists, the
\* failing step and every later step leave both tiers as they were, and if
\* the predictions fetch is the one that failed no extremes fetch was issued.
FetchFailed == ReqStarted /\ \E i \in 1..Len(req.httpLog) : HttpFails(req.httpLog[i])
FetchErrorsPropagate ==
    [][FetchFailed' =>
        /\ req'.pc = "done"
        /\ req'.result.kind = "error"
        /\ req'.result.err \in {"fetching predictions", "fetching extremes",
                                "decoding response"}
        /\ req'.spawned = 0
        /\ wb' = <<>>
        /\ lru' = lru
        /\ dynamo' = dynamo
        /\ HttpFails(req'.httpLog[1]) => req'.extFetches = 0]_vars
\* the extremes fetch returned an undecodable body after a good predictions fetch
ExtremesDecodeFailed ==
    /\ ReqDone
    /\ req.httpLog = <<"ok", "decode">>
    /\ req.result.err = "decoding response"

\* C4: a probe that returned an error puts its day among the missing dates,
\* the loop goes on through the remaining days, and the request never ends
\* with the probe's error.
ProbeFailed(i) == req.probeLog[i] # NoErr
ProbeErrorIsMiss ==
    ReqStarted =>
        /\ ReqErr \notin {ErrGet, ErrPut, ErrInvalid, "getting predictions"}
        /\ \A i \in 1..Len(req.probeLog) :
              ProbeFailed(i) =>
                  /\ \E j \in 1..Len(req.missing) : req.missing[j] = req.dates[i]
                  /\ req.pc # "probe" => Len(req.probeLog) = Len(req.dates)
\* the first of several probes failed and the request still answered
ProbeFailedRequestAnswered ==
    /\ ReqOk
    /\ Len(req.probeLog) >= 2
    /\ ProbeFailed(1)
    /\ req.predFetches = 1

\* C5: whatever becomes of a write-back task, the request has returned the
\* successful response built from the cached and the newly fetched records.
WriteBackNeverReachesRequest ==
    \A k \in 1..Len(wb) :
        /\ ReqOk
        /\ req.result = Response(req, SortBy(req.cached \o wb[k].records, "date"))
\* the write-back gave up after its retries and the request has its response
WriteBackFailedRemotely ==
    /\ Len(wb) = 1
    /\ wb[1].pc = "failed"
    /\ wb[1].err = ErrBatch
    /\ ReqOk

\* C6: the context of a write-back task is never cancelled, whatever happens
\* to the request's; a task fails remotely only after MaxBatchRetries failed
\* writes of its own.
WriteBackSurvivesCancel ==
    \A k \in 1..Len(wb) :
        /\ ~CtxDone(wb[k].ctx)
        /\ wb[k].err = ErrBatch => wb[k].retry = MaxBatchRetries /\ faults >= MaxBatchRetries
\* the task wrote its records after the request's context had been cancelled
WriteBackCompletedAfterCancel ==
    /\ Len(wb) = 1
    /\ wb[1].pc = "ok"
    /\ wb[1].afterCancel
    /\ \A j \in 1..Len(wb[1].records) : DynamoKey(wb[1].records[j]) \in DOMAIN dynamo

\* C7: a get of a key whose entry is present and unexpired returns the entry's
\* record and counts one LRU hit; any other get counts one LRU miss, and an
\* expired entry is gone afterwards (the key is absent or holds an entry the
\* get itself stamped); every get moves exactly one of the two LRU counters.
LruGetSemantics ==
    [][GetStep =>
        LET key == ret'.key
        IN  IF LruContains(lru, key) /\ now < LruPeek(lru, key).expiresAt
            THEN /\ ret'.rec = LruPeek(lru, key).data
                 /\ ret'.err = NoErr
                 /\ stats' = [stats EXCEPT !.lruHits = @ + 1]
            ELSE /\ stats'.lruMisses = stats.lruMisses + 1
                 /\ stats'.lruHits = stats.lruHits
                 /\ LruContains(lru, key) =>
                       \/ ~LruContains(lru', key)
                       \/ LruPeek(lru', key).expiresAt = TruncSecond(now) + GetLRUTTL]_vars
\* a get at the very instant of expiry found the entry expired and dropped it
ExpiredEntryDropped ==
    /\ ret.op = "get"
    /\ ret.lruCase = "expired"
    /\ now = Now0 + GetLRUTTL
    /\ ~LruContains(lru, ret.key)
    /\ stats.lruMisses >= 1

\* C8 (as stated): a get of k later than put-time + T returns nil without
\* error and leaves k absent.  expiresAt is the put time cut to the second
\* plus T, so an instant of expiresAt + 1s or later is past put-time + T.
PutExpired(key) == LruContains(lru, key) /\ now >= LruPeek(lru, key).expiresAt + Second
ExpiredGetIsNil ==
    [][(GetStep /\ faults' = faults /\ PutExpired(ret'.key)) =>
        /\ ret'.rec = Nil
        /\ ret'.err = NoErr
        /\ ~LruContains(lru', ret'.key)]_vars
\* C8 (amended): such a get counts an LRU miss and falls through to the remote
\* tier: it returns nil without error and leaves k absent only if the table
\* holds no unexpired item for k; if it holds a valid one the get returns it
\* and k is back in the LRU with a new expiry.
RemoteHolds(key) == key \in DOMAIN dynamo /\ isValid(dynamo[key], now)
ExpiredGetFallsThrough ==
    [][(GetStep /\ faults' = faults /\ PutExpired(ret'.key)) =>
        LET key == ret'.key
        IN  /\ stats'.lruMisses = stats.lruMisses + 1
            /\ ret'.gets = 1
            /\ IF ~RemoteHolds(key)
               THEN ret'.rec = Nil /\ ret'.err = NoErr /\ ~LruContains(lru', key)
               ELSE IF Validate(dynamo[key])
               THEN /\ ret'.rec = dynamo[key]
                    /\ ret'.err = NoErr
                    /\ LruContains(lru', key)
                    /\ LruPeek(lru', key).expiresAt = TruncSecond(now) + GetLRUTTL
               ELSE ret'.rec = Nil /\ ret'.err = ErrInvalid /\ ~LruContains(lru', key)]_vars
\* a get after expiry returned the record and the key is in the LRU again
ExpiredGetServedByRemote ==
    /\ ret.op = "get"
    /\ ret.lruCase = "expired"
    /\ now = Now0 + GetLRUTTL + Second
    /\ ret.rec # Nil
    /\ LruContains(lru, ret.key)

\* C9 (as stated): a get of a key absent from the LRU whose unexpired, valid
\* record the table holds and hands out returns that record with one remote
\* GET and leaves the key in the LRU.
RemoteHitReturnsRecord ==
    [][(GetStep /\ ~LruContains(lru, ret'.key) /\ RemoteHolds(ret'.key)
          /\ Validate(dynamo[ret'.key]) /\ ret'.err # ErrGet) =>
        /\ ret'.rec = dynamo[ret'.key]
        /\ ret'.err = NoErr
        /\ ret'.gets = 1
        /\ LruContains(lru', ret'.key)]_vars

\* C10: the scenario: the only call before the request saved the valid record
\* of day D, the request asked for [D 00:00:00, D+1 00:00:00] station-local and
\* was answered, nothing failed or was cancelled, the clock stood still and
\* the remote tier supplied no day.
CacheHitScenario ==
    /\ ReqOk
    /\ nreq = 1
    /\ ret.op = "save"
    /\ ret.key = getCacheKey(station.id, Day0)
    /\ ret.err = NoErr
    /\ req.start = ParseInLocation(Day0 * Day, station.off)
    /\ req.end = req.start + Day
    /\ faults = 0
    /\ cancelled = {}
    /\ now = Now0
    /\ stats.dynamoHits = 0
\* C10 (as stated): the scenario issues no upstream call and counts one LRU hit.
CacheHitNoUpstream ==
    CacheHitScenario => req.predFetches + req.extFetches = 0 /\ stats.lruHits = 1
\* C10 (amended): the scenario counts one LRU hit, but the enumerated days
\* run through D+1, whose probe misses, so one predictions fetch and one
\* extremes fetch are issued.
CacheHitStillFetchesNextDay ==
    CacheHitScenario =>
        /\ stats.lruHits = 1
        /\ \E i \in 1..Len(req.dates) : DayOf(i) = Day0 + 1
        /\ stats.lruMisses = Len(req.dates) - 1
        /\ req.predFetches = 1
        /\ req.extFetches = 1
\* the scenario happened for a reference station and both fetches were issued
CacheHitScenarioFetched ==
    /\ CacheHitScenario
    /\ station.stationType = "R"
    /\ req.predFetches = 1
    /\ req.extFetches = 1

\* C11: a get that directly follows the put of a valid record r, for r's key,
\* returns r on stationID, date, stationType, predictions and extremes: from
\* the LRU while the entry is unexpired, and after that from the table if the
\* put reached it and the get's remote calls work.
SameRecord(a, b) ==
    /\ a.stationID = b.stationID
    /\ a.date = b.date
    /\ a.stationType = b.stationType
    /\ a.predictions = b.predictions
    /\ a.extremes = b.extremes
PutThenGetRoundTrip ==
    [][(GetStep /\ ret.op = "save" /\ Validate(ret.rec) /\ ret'.key = ret.key) =>
        /\ LruContains(lru, ret.key)
        /\ LET e == LruPeek(lru, ret.key)
           IN  /\ SameRecord(e.data, ret.rec)
               /\ (now < e.expiresAt \/ (ret.err = NoErr /\ faults' = faults)) =>
                     /\ ret'.rec # Nil
                     /\ ret'.err = NoErr
                     /\ SameRecord(ret'.rec, ret.rec)]_vars
\* a put followed by a get that the LRU served with the record's predictions
PutThenGetServed ==
    /\ nreq = 2
    /\ ret.op = "get"
    /\ ret.lruCase = "hit"
    /\ stats.dynamoHits = 0
    /\ ret.rec # Nil
    /\ Len(ret.rec.predictions) > 0

\* C12: whenever a get reaches the table, DynamoPredictionCache.GetPredictions
\* answers with an error only if GetItem itself failed; otherwise it answers
\* nil without error if the item is absent or now >= TTL (in Unix seconds),
\* and the stored item if now < TTL.
DurableGetMissIsNoError ==
    [][(GetStep /\ ret'.gets = 1) =>
        LET key == ret'.key
            r == ret'.remote
        IN  IF r.err # NoErr
            THEN r.err = ErrGet /\ r.rec = Nil /\ faults' > faults
            ELSE IF key \notin DOMAIN dynamo THEN r.rec = Nil
            ELSE IF Unix(now) >= dynamo[key].ttl THEN r.rec = Nil
            ELSE r.rec = dynamo[key]]_vars
\* the table was asked in the very second of the item's TTL and answered a miss
DurableGetAtTTLMissed ==
    /\ ret.op = "get"
    /\ ret.gets = 1
    /\ ret.remote = [rec |-> Nil, err |-> NoErr]
    /\ ret.key \in DOMAIN dynamo
    /\ Unix(now) = dynamo[ret.key].ttl
\* the table was asked one second before the item's TTL and handed it out
DurableGetBeforeTTLServed ==
    /\ ret.op = "get"
    /\ ret.gets = 1
    /\ ret.remote.rec # Nil
    /\ Unix(now) = ret.remote.rec.ttl - 1

\* C13 (as stated): a SavePredictionsBatch that is rejected because a record
\* of the batch is invalid has written nothing to the table and has left the
\* LRU as it was.
BatchRejected(k) == wb[k].pc = "start" /\ wb'[k].pc = "failed" /\ wb'[k].err = ErrInvalid
RejectedBatchLeavesNoTrace ==
    [][\A k \in 1..Len(wb) : BatchRejected(k) => dynamo' = dynamo /\ lru' = lru]_vars

\* C14: every BatchWriteItem attempt of a batch is one of its first
\* MaxBatchRetries; a failed attempt writes nothing, is followed by a sleep of
\* 100 ms * 2^attempt and, if it was the last one allowed, ends the task with
\* the batch-write error; a successful attempt writes the batch and moves on
\* to the next batch with a fresh count; a failed task never acts again.
AttemptFailed(a, b) ==
    /\ b.retry = a.retry + 1
    /\ b.slept = 100 * (2 ^ a.retry)
    /\ b.i = a.i
    /\ dynamo' = dynamo
    /\ IF a.retry + 1 = MaxBatchRetries
       THEN b.pc = "failed" /\ b.err = ErrBatch
       ELSE b.pc = "write" /\ b.items = a.items /\ b.err = NoErr
AttemptSucceeded(a, b) ==
    /\ dynamo' = PutAll(dynamo, a.items)
    /\ b.err = NoErr
    /\ IF a.i + BatchSize > Len(a.records)
       THEN b.pc = "ok"
       ELSE b.pc = "write" /\ b.i = a.i + BatchSize /\ b.retry = 0
BatchRetryProtocol ==
    [][\A k \in 1..Len(wb) :
          /\ wb[k].pc = "failed" => wb'[k] = wb[k]
          /\ (wb[k].pc = "write" /\ wb'[k] # wb[k]) =>
                /\ wb[k].retry < MaxBatchRetries
                /\ Len(wb[k].items) <= BatchSize
                /\ IF faults' > faults
                   THEN AttemptFailed(wb[k], wb'[k])
                   ELSE AttemptSucceeded(wb[k], wb'[k])]_vars
\* the first batch failed on every attempt and the later batch was never written
RetriesExhaustedOnFirstBatch ==
    /\ Len(wb) = 1
    /\ wb[1].pc = "failed"
    /\ wb[1].err = ErrBatch
    /\ wb[1].i = 1
    /\ wb[1].retry = MaxBatchRetries
    /\ wb[1].slept = 100 * (2 ^ (MaxBatchRetries - 1))
    /\ Len(wb[1].records) > BatchSize
    /\ DynamoKey(wb[1].records[Len(wb[1].records)]) \notin DOMAIN dynamo
\* a batch failed once, was retried with success, and the task completed
RetriedThenSucceeded ==
    /\ Len(wb) = 1
    /\ wb[1].pc = "ok"
    /\ wb[1].slept = 100
    /\ \A j \in 1..Len(wb[1].records) : DynamoKey(wb[1].records[j]) \in DOMAIN dynamo

\* ---------------------------------------------------------------- C15
SeqRange(seq) == {seq[i] : i \in 1..Len(seq)}
InWindow(p) == req.start <= p.t /\ p.t <= req.end
Ascending(series) == \A i \in 1..(Len(series) - 1) : series[i].t <= series[i + 1].t
\* the series the response is cut from: the predictions of the gathered
\* records, or the generated series when the records hold none
PooledPredictions ==
    IF req.result.synthesized THEN GeneratePredictions(req.start, req.end, station.off)
    ELSE Flatten(req.result.pool, "predictions")
PooledExtremes == Flatten(req.result.pool, "extremes")
\* C15: in every successful response each returned prediction and extreme
\* lies in the window start..end with both bounds included, each pooled
\* prediction and extreme that lies in the window is returned, and both
\* lists are in ascending order of timestamp
WindowFilterAndOrder ==
    ReqOk =>
        /\ SeqRange(req.result.predictions) = {p \in SeqRange(PooledPredictions) : InWindow(p)}
        /\ SeqRange(req.result.extremes) = {e \in SeqRange(PooledExtremes) : InWindow(e)}
        /\ Ascending(req.result.predictions)
        /\ Ascending(req.result.extremes)
\* a response cut from fetched predictions: one returned at the very end of
\* the window, one returned at its very start, and pooled points left out
WindowCutAtBothBounds ==
    /\ ReqOk
    /\ ~req.result.synthesized
    /\ \E p \in SeqRange(req.result.predictions) : p.t = req.end
    /\ \E p \in SeqRange(req.result.predictions) : p.t = req.start
    /\ \E p \in SeqRange(PooledPredictions) : ~InWindow(p)
    /\ \E e \in SeqRange(PooledExtremes) : ~InWindow(e)
    /\ req.result.extremes # <<>>
\* a response whose predictions were generated from the extremes
WindowOfGeneratedPredictions ==
    /\ ReqOk
    /\ req.result.synthesized
    /\ Len(req.result.predictions) > 1
    /\ req.result.predictions[Len(req.result.predictions)].t = req.end

\* ---------------------------------------------------------------- C16
GotStatus == ReqStarted /\ \E i \in 1..Len(req.httpLog) : req.httpLog[i] = "status"
\* C16: a response with a status other than 2xx is an upstream error: the
\* request it was fetched for ends with an error, its body is not decoded into
\* a successful result, and nothing of it is handed to the write-back
NonOkStatusIsUpstreamError ==
    GotStatus => /\ req.pc = "done"
                 /\ req.result.kind = "error"
                 /\ req.spawned = 0

\* ---------------------------------------------------------------- C17
Catalog(h, m) == h[m.stations]
LastStep(c) == c.trace[Len(c.trace)]
TierOf(i) == IF i = 1 THEN "mem"
             ELSE IF i = 2 /\ s3.configured THEN "blob"
             ELSE "upstream"
\* C17: getStationList asks the memory cache, then the S3 cache, then the
\* provider, and stops at the first hit: a memory hit reads neither S3 nor the
\* provider; an S3 hit ends the call without a fetch and puts the list into
\* the memory cache; an S3 miss or S3 error leads on to the fetch and is not
\* the call's error; a successful fetch puts the list into the memory cache
\* in the step that ends the call.
StationListReadPath ==
    [][call' # call =>
        LET t == call'.trace
            last == LastStep(call')
        IN  /\ Len(t) <= 3
            /\ \A i \in 1..Len(t) : t[i].tier = TierOf(i)
            /\ \A i \in 1..(Len(t) - 1) : ~t[i].hit
            /\ last.hit => /\ call'.pc = "done"
                           /\ call'.err = NoErr
                           /\ call'.stations # NilRef
            /\ (last.tier = "mem" /\ last.hit) =>
                    /\ mem' = mem /\ s3' = s3
                    /\ heap'[call'.stations] = Catalog(heap, mem)
            /\ (last.tier = "blob" /\ last.hit) =>
                    /\ mem'.lastUpdated = now
                    /\ Catalog(heap', mem') = s3.object.stations
                    /\ heap'[call'.stations] = s3.object.stations
            /\ (last.tier = "blob" /\ ~last.hit) =>
                    /\ call'.pc = "upstream" /\ call'.err = NoErr
                    /\ mem' = mem
            /\ (last.tier = "upstream" /\ last.hit) =>
                    /\ mem'.lastUpdated = now
                    /\ Catalog(heap', mem') = heap'[call'.stations]
            /\ (last.tier = "upstream" /\ ~last.hit) =>
                    /\ call'.pc = "done" /\ call'.err = last.err /\ last.err # NoErr
                    /\ mem' = mem]_vars
\* a call that found the memory cache expired, got an error from the S3
\* cache and was answered by the provider
BlobErrorFellThrough ==
    /\ call.pc = "done"
    /\ Len(call.trace) = 3
    /\ call.trace[2].err # NoErr
    /\ call.trace[3].hit
    /\ call.err = NoErr
    /\ Catalog(heap, mem) = UpstreamList
\* a call answered by the S3 cache
BlobHitFilledMemory ==
    /\ call.pc = "done"
    /\ Len(call.trace) = 2
    /\ call.trace[2].tier = "blob"
    /\ call.trace[2].hit
    /\ mem.lastUpdated = now
\* a call answered by the memory cache
MemoryHitAnswered ==
    /\ call.pc = "done"
    /\ call.n = MaxStationCalls
    /\ call.trace = <<Step("mem", TRUE, NoErr)>>

\* ---------------------------------------------------------------- C18
CallerWrote == held'.op = "write" /\ heap' # heap
\* C18: the memory cache is a snapshot: when a caller overwrites an element of
\* the slice GetStations returned to it, or of the slice it passed to
\* SetStations, the cached catalog stays what it was
CatalogIsSnapshot ==
    [][CallerWrote => Catalog(heap', mem') = Catalog(heap, mem)]_vars
\* the same for the StationCache that copies on the way in and on the way out
CopiedCatalogIsSnapshot ==
    [][(CallerWrote /\ build = "internal") => Catalog(heap', mem') = Catalog(heap, mem)]_vars

\* ---------------------------------------------------------------- C19
Called(op) == held'.n = held.n + 1 /\ held'.op = op
NotCached == [stations |-> Nil, err |-> NoErr]
Stored == s3.object \notin {Nil, Garbage}
\* C19: the S3 cache serves the stored list while the clock's epoch second is
\* at most record.TTL, answers (nil, no error) once it is past record.TTL or
\* when the object does not exist, and fails get and save alike on an empty
\* bucket name; the memory cache answers nil exactly when the time since
\* lastUpdated exceeds the ttl, the never-set cache included
CatalogExpiry ==
    [][/\ Called("s3get") =>
            /\ s3.bucketName = "" => held'.s3ret = [stations |-> Nil, err |-> ErrBucket]
            /\ (s3.bucketName # "" /\ s3.object = Nil) => held'.s3ret = NotCached
            /\ (s3.bucketName # "" /\ Stored /\ Unix(now) > s3.object.ttl) =>
                    held'.s3ret = NotCached
            /\ (s3.bucketName # "" /\ Stored /\ Unix(now) <= s3.object.ttl /\ held'.out = "ok") =>
                    held'.s3ret = [stations |-> Some(s3.object.stations), err |-> NoErr]
            /\ s3' = s3
       /\ Called("s3save") =>
            /\ s3.bucketName = "" => held'.s3ret.err = ErrBucket /\ s3' = s3
            /\ (s3.bucketName # "" /\ held'.out = "ok") =>
                    /\ held'.s3ret.err = NoErr
                    /\ s3'.object.ttl = Unix(now) + S3TTLHours * 3600
       /\ Called("get") =>
            /\ held'.got = NilRef <=>
                    (mem.lastUpdated = ZeroTime \/ now - mem.lastUpdated > GetStationListTTL)
            /\ held'.got # NilRef => heap'[held'.got] = Catalog(heap, mem)
            /\ mem' = mem]_vars
\* the stored list served in the last second of its validity
BlobServedAtTTL ==
    /\ held.op = "s3get"
    /\ Stored
    /\ Unix(now) = s3.object.ttl
    /\ now % Second # 0
    /\ held.s3ret.stations = Some(s3.object.stations)
\* the stored list no longer served one second later
BlobExpiredPastTTL ==
    /\ held.op = "s3get"
    /\ held.out = "ok"
    /\ Stored
    /\ Unix(now) = s3.object.ttl + 1
    /\ held.s3ret = NotCached
\* a get and a save refused for the empty bucket name
EmptyBucketRefused ==
    /\ s3.bucketName = ""
    /\ held.op \in {"s3get", "s3save"}
    /\ held.s3ret.err = ErrBucket
\* the memory cache still serving at lastUpdated + ttl
MemoryServedAtTTL ==
    /\ held.op = "get"
    /\ mem.lastUpdated # ZeroTime
    /\ now - mem.lastUpdated = GetStationListTTL
    /\ held.got # NilRef
\* the memory cache that was never set answers nil
MemoryNeverSetIsNil ==
    /\ held.op = "get"
    /\ mem.lastUpdated = ZeroTime
    /\ held.got = NilRef

\* ---------------------------------------------------------------- C20
CallerModified == ret.op = "get" /\ ret'.op = "get" /\ nreq' = nreq /\ ret'.rec # ret.rec
\* C20: the record GetPredictions returned shares nothing with the LRU entry:
\* when the caller writes to a field of it or to an element of its sequences,
\* the entry, and so what a later GetPredictions of the key returns, stays
\* what it was
ReturnedRecordIsPrivate ==
    [][CallerModified => LruPeek(lru', ret.key).data = LruPeek(lru, ret.key).data]_vars

\* ---------------------------------------------------------------- C21
RECURSIVE SumOver(_, _)
SumOver(f, S) == IF S = {} THEN 0
                 ELSE LET x == CHOOSE y \in S : TRUE IN f[x] + SumOver(f, S \ {x})
\* the GetPredictions calls that have returned, and those that have begun
GetsCompleted == SumOver([t \in Threads |-> thr[t].gets], Threads)
GetsBegun == SumOver([t \in Threads |-> thr[t].gets + (IF thr[t].op = "get" /\ thr[t].pc # "idle" THEN 1 ELSE 0)], Threads)
Quiescent == \A t \in Threads : thr[t].pc = "idle"
\* C21: under every interleaving of concurrent calls no counter update is
\* lost: lru_hits + lru_misses is at least the number of GetPredictions calls
\* that have returned, at most the number that have begun, and equal to it
\* when no call is in progress; no counter ever decreases; and what
\* GetCacheStats returns is a value the four counters had together at some
\* instant.
StatsAreThreadSafe ==
    /\ [](/\ stats.lruHits + stats.lruMisses >= GetsCompleted
          /\ stats.lruHits + stats.lruMisses <= GetsBegun
          /\ Quiescent => stats.lruHits + stats.lruMisses = GetsCompleted
          /\ \A t \in Threads :
                (thr[t].op = "stats" /\ thr[t].pc \in {"runlock", "return"}) =>
                    thr[t].snapshot \in statsSeen)
    /\ [][\A c \in Counters : stats'[c] >= stats[c]]_vars
\* two GetPredictions calls by different goroutines have returned, both are
\* counted, one as a hit and one as a miss
ConcurrentGetsCounted ==
    /\ Quiescent
    /\ \E t, u \in Threads : t # u /\ thr[t].gets = 1 /\ thr[u].gets = 1
    /\ stats.lruHits = 1
    /\ stats.lruMisses = 1
\* GetCacheStats has returned the counters while a GetPredictions call is
\* between its two increments
StatsReadBetweenIncrements ==
    \E t, u \in Threads :
        /\ thr[t].op = "stats" /\ thr[t].pc = "return"
        /\ thr[t].snapshot.lruMisses = 1
        /\ thr[u].op = "get" /\ thr[u].pc = "remote"
\* a goroutine waits at Lock while another is between the read and the write
\* of a counter
WriterWaits ==
    \E t, u \in Threads :
        /\ thr[t].op = "get" /\ thr[t].pc = "lock"
        /\ thr[u].op = "get" /\ thr[u].pc = "store"
        /\ thr[t].counter = thr[u].counter

\* ---------------------------------------------------------------- C22
FindReturned == find.pc = "done" /\ find.n > 0
FindSucceeded == FindReturned /\ find.err = NoErr /\ find.stations # Nil
IdsOf(r) == {r[i].id : i \in 1..Len(r)}
\* C22: FindNearestStations answers a latitude outside [-90, 90] or a longitude
\* outside [-180, 180] with the invalid-latitude or invalid-longitude error
\* and no stations, without a call of getStationList; for valid coordinates
\* and a catalog it could read it returns min(L, |catalog|) stations, L being
\* the limit if positive and 5 otherwise: distinct catalog stations, each with
\* its distance from the query point, in ascending order of distance, and no
\* station left out is nearer than one returned.
NearestStationsContract ==
    FindReturned =>
        /\ (find.lat < -90 \/ find.lat > 90) =>
              find.err = ErrLatitude /\ find.stations = Nil /\ call.n = find.since
        /\ (find.lon < -180 \/ find.lon > 180) =>
              find.err \in {ErrLatitude, ErrLongitude} /\ find.stations = Nil /\ call.n = find.since
        /\ (find.lat >= -90 /\ find.lat <= 90 /\ find.lon >= -180 /\ find.lon <= 180) =>
              /\ find.err \in {NoErr, ErrStationList}
              /\ call.n = find.since + 1
              /\ (find.err = NoErr) = (call.err = NoErr)
        /\ FindSucceeded =>
              LET r == find.stations.list
                  c == find.catalog
                  L == IF find.limit > 0 THEN find.limit ELSE 5
              IN  /\ Len(r) = Min(L, Len(c))
                  /\ Cardinality(IdsOf(r)) = Len(r)
                  /\ IdsOf(r) \subseteq SeqRange(c)
                  /\ \A i \in 1..Len(r) :
                        r[i].distance = calculateDistance(find.lat, find.lon, StationLat[r[i].id], StationLon)
                  /\ \A i \in 1..Len(r), j \in 1..Len(r) : i < j => r[i].distance <= r[j].distance
                  /\ \A id \in SeqRange(c) \ IdsOf(r), i \in 1..Len(r) :
                        calculateDistance(find.lat, find.lon, StationLat[id], StationLon) >= r[i].distance
\* a limit of zero or less gave the whole catalog of three
DefaultLimitClamped ==
    /\ FindSucceeded
    /\ find.limit <= 0
    /\ Len(find.catalog) = 3
    /\ Len(find.stations.list) = 3
\* a limit of two cut a catalog of three to its two nearest stations
LimitCutCatalog ==
    /\ FindSucceeded
    /\ find.limit = 2
    /\ Len(find.catalog) = 3
    /\ Len(find.stations.list) = 2
\* a longitude out of range was refused before the catalog was read
InvalidLongitudeRefused ==
    /\ FindReturned
    /\ find.lon > 180
    /\ find.err = ErrLongitude
    /\ call.n = 0

\* ---------------------------------------------------------------- C23
IdRank(id) == CHOOSE i \in 1..Len(StationIDs) : StationIDs[i] = id
\* C23: of two returned stations at the same distance from the query point
\* the one with the smaller station ID comes first, whatever order the
\* catalog lists them in.
TiesBrokenByID ==
    FindSucceeded =>
        LET r == find.stations.list
        IN  \A i \in 1..Len(r), j \in 1..Len(r) :
               (i < j /\ r[i].distance = r[j].distance) => IdRank(r[i].id) < IdRank(r[j].id)
\* (the catalog order decides a tie: the station listed first comes first)
TiesKeepCatalogOrder ==
    FindSucceeded =>
        LET r == find.stations.list
            c == find.catalog
            Pos(id) == CHOOSE k \in 1..Len(c) : c[k] = id
        IN  \A i \in 1..Len(r), j \in 1..Len(r) :
               (i < j /\ r[i].distance = r[j].distance) => Pos(r[i].id) < Pos(r[j].id)

\* ---------------------------------------------------------------- C24
Answered == req.pc = "done" /\ req.result.kind = "ok"
\* C24: the station type alone decides how a response is interpolated: from
\* the extremes for a station of type "S", from the predictions for every
\* other station, whichever of the two series the records hold.
ModeFollowsStationType ==
    Answered => (req.result.synthesized <=> station.stationType = "S")
\* (what decides is whether the records hold any prediction at all)
ModeFollowsPooledPredictions ==
    Answered => (req.result.synthesized <=> Flatten(req.result.pool, "predictions") = <<>>)
\* a reference station answered from its extremes
ReferenceStationFromExtremes ==
    /\ Answered
    /\ station.stationType = "R"
    /\ req.result.synthesized
    /\ req.result.extremes # <<>>

\* ---------------------------------------------------------------- C27
Interpolated == interp.n = 1 /\ interp.knots # <<>>
Between(x, a, b) == (a <= x /\ x <= b) \/ (b <= x /\ x <= a)
\* the laws the two functions share whatever the rounding: the first height
\* before the first knot, the last height after the last knot, and a linear
\* result between the heights of the two knots around the timestamp
ClampedAndBetween ==
    LET k == interp.knots
        ts == interp.timestamp
    IN  /\ ts < k[1].t => interp.linear = k[1].h /\ interp.hermite = k[1].h
        /\ ts > k[Len(k)].t => interp.linear = k[Len(k)].h /\ interp.hermite = k[Len(k)].h
        /\ \A i \in 1..(Len(k) - 1) :
              (k[i].t < ts /\ ts < k[i + 1].t) => Between(interp.linear, k[i].h, k[i + 1].h)
\* C27 (as stated): at the timestamp of a knot interpolatePredictions and
\* interpolateExtremes return exactly the height of that knot; before the
\* first knot the first height, after the last knot the last height; strictly
\* between two adjacent knots the linear result lies between their heights.
InterpolationLawsExact ==
    Interpolated =>
        /\ ClampedAndBetween
        /\ \A i \in 1..Len(interp.knots) :
              interp.knots[i].t = interp.timestamp =>
                 /\ interp.linear = interp.knots[i].h
                 /\ interp.hermite = interp.knots[i].h
\* C27 (amended): as stated, except that at a knot other than the first
\* interpolatePredictions returns p1.Height + (p2.Height - p1.Height) * 1 as
\* float64 arithmetic rounds it: the height of the knot to within one step
\* of the floating-point spacing at the magnitude of the two heights.
\* interpolateExtremes is exact at every knot and interpolatePredictions at
\* the first.
InterpolationLaws ==
    Interpolated =>
        /\ ClampedAndBetween
        /\ \A i \in 1..Len(interp.knots) :
              interp.knots[i].t = interp.timestamp =>
                 /\ interp.hermite = interp.knots[i].h
                 /\ i = 1 => interp.linear = interp.knots[i].h
                 /\ i > 1 => /\ interp.linear = fadd(interp.knots[i - 1].h,
                                                    fsub(interp.knots[i].h, interp.knots[i - 1].h))
                             /\ Abs(interp.linear - interp.knots[i].h)
                                   <= Ulp(Abs(interp.knots[i - 1].h) + Abs(interp.knots[i].h))
\* a linear interpolation at a knot that did not return the height of the knot
LinearKnotRounded ==
    /\ Interpolated
    /\ \E i \in 2..Len(interp.knots) :
          /\ interp.knots[i].t = interp.timestamp
          /\ interp.linear # interp.knots[i].h
          /\ interp.hermite = interp.knots[i].h
\* a timestamp strictly between two knots of different heights
LinearStrictlyBetween ==
    /\ Interpolated
    /\ \E i \in 1..(Len(interp.knots) - 1) :
          /\ interp.knots[i].t < interp.timestamp
          /\ interp.timestamp < interp.knots[i + 1].t
          /\ interp.knots[i].h < interp.linear
          /\ interp.linear < interp.knots[i + 1].h

\* ---------------------------------------------------------------- C25
TideTypes == {"RISING", "FALLING"}
\* the filtered predictions before the instant of the response
Before == {i \in 1..Len(req.result.predictions) : req.result.predictions[i].t < req.result.timestamp}
PriorHeight ==
    LET i == CHOOSE j \in Before : \A k \in Before : k <= j
    IN  HeightOf(req.result.predictions[i], SortBy(Flatten(req.result.pool, "extremes"), "t"))
\* with a prior prediction, RISING above its height and FALLING otherwise
TideTypeAgainstPrior ==
    req.result.tideType \in TideTypes =>
        /\ Before # {}
        /\ req.result.tideType = (IF req.result.waterLevel > PriorHeight THEN "RISING" ELSE "FALLING")
TideTypeOmittedBeforeWindow ==
    /\ Answered
    /\ Len(req.result.predictions) >= 2
    /\ Before = {}
    /\ req.result.tideType = "nil"
RisingReported == Answered /\ req.result.tideType = "RISING" /\ ~req.result.synthesized
FallingReported == Answered /\ req.result.tideType = "FALLING" /\ req.result.synthesized

\* ---------------------------------------------------------------- C26
\* a subordinate station answered from records that hold only extremes
Subordinate ==
    /\ Answered
    /\ station.stationType = "S"
    /\ req.result.synthesized
\* the predictions lie on the 6-minute grid that begins with the window, and
\* the extremes returned are the extremes of the records that lie in the window
OnGridWithInputExtremes ==
    /\ \A i \in 1..Len(req.result.predictions) :
          /\ req.result.predictions[i].t = req.start + (i - 1) * 6 * Minute
          /\ req.result.predictions[i].wall = formatLocalTime(req.result.predictions[i].t, station.off)
    /\ SeqRange(req.result.extremes) = {e \in SeqRange(PooledExtremes) : InWindow(e)}
\* C26 (as stated): for a station of type "S" whose records hold only
\* extremes, a query for a full day returns exactly 240 predictions on a
\* 6-minute grid, and as extremes the extremes of the records unchanged.
FullDayHas240 ==
    (Subordinate /\ req.end - req.start = Day) =>
        /\ Len(req.result.predictions) = 240
        /\ OnGridWithInputExtremes
\* C26 (amended): for such a station the predictions are the instants
\* start, start + 6 min, ... up to and including the end of the window, each
\* with the Hermite interpolation of the extremes as its height: 241 of
\* them for a window of 24 hours, as the default window is, and 240 for a
\* window that ends a second before the next midnight; the extremes returned
\* are the extremes of the records that lie in the window, unchanged.
SynthesisGrid ==
    (Subordinate /\ req.end >= req.start) =>
        /\ Len(req.result.predictions) = ((req.end - req.start) \div (6 * Minute)) + 1
        /\ req.end - req.start = Day => Len(req.result.predictions) = 241
        /\ req.end - req.start = Day - Second => Len(req.result.predictions) = 240
        /\ OnGridWithInputExtremes
\* the default window of a subordinate station: 241 predictions, the last one
\* at the end of the window, and the extremes of the day
FullDaySynthesized ==
    /\ Subordinate
    /\ req.end - req.start = Day
    /\ Len(req.result.predictions) = 241
    /\ req.result.predictions[241].t = req.end
    /\ Len(req.result.extremes) = 2
\* a window a second short of a day: 240 predictions
ShortDaySynthesized ==
    /\ Subordinate
    /\ req.end - req.start = Day - Second
    /\ Len(req.result.predictions) = 240

\* ---------------------------------------------------------------- C28
Fetching == req.pc # "idle" /\ req.asked # <<>>
MissingDays == {FormatDate(req.missing[i], station.off) : i \in 1..Len(req.missing)}
CachedDays == {req.cached[i].date : i \in 1..Len(req.cached)}
\* C28: whenever the request fetches from the provider some date is missing,
\* the predictions are asked for first and the extremes second, both for the
\* same span; the span begins on the earliest missing date and ends on the
\* latest, so it holds every missing date and neither starts before nor ends
\* after one.
CoalescedSpan ==
    Fetching =>
        /\ req.missing # <<>>
        /\ Len(req.asked) = req.predFetches + req.extFetches
        /\ req.predFetches = 1 /\ req.extFetches <= 1
        /\ req.asked[1].what = "predictions"
        /\ Len(req.asked) = 2 => req.asked[2].what = "extremes"
        /\ \A i \in 1..Len(req.asked) :
              /\ req.asked[i].begin = req.asked[1].begin
              /\ req.asked[i].end = req.asked[1].end
              /\ req.asked[i].begin \in MissingDays
              /\ req.asked[i].end \in MissingDays
              /\ \A d \in MissingDays : req.asked[i].begin <= d /\ d <= req.asked[i].end
\* both fetches made for a span with a cached day inside it
SpanAroundCachedDay ==
    /\ Fetching
    /\ Len(req.asked) = 2
    /\ \E d \in CachedDays : req.asked[1].begin < d /\ d < req.asked[2].end
\* both fetches made for a span with a cached day before it
SpanAfterCachedDay ==
    /\ Fetching
    /\ Len(req.asked) = 2
    /\ \E d \in CachedDays : d < req.asked[1].begin

\* ---------------------------------------------------------------- C29
EnumeratedDays == {FormatDate(req.dates[i], station.off) : i \in 1..Len(req.dates)}
\* the request fetched, built its records and spawned the write-back
Rebucketed == req.pc = "done" /\ req.result.kind = "ok" /\ req.spawned = 1
\* C29: the write-back of a request is handed one new record for each missing
\* date, in the order of the missing dates, and none for a date that was
\* cached, also when the fetched span holds cached dates; the records the
\* request goes on with hold each enumerated date exactly once.
OneRecordPerMissingDate ==
    /\ Len(wb) = (IF req.pc # "idle" THEN req.spawned ELSE 0)
    /\ Rebucketed =>
          /\ Len(wb[1].records) = Len(req.missing)
          /\ \A i \in 1..Len(req.missing) :
                wb[1].records[i].date = FormatDate(req.missing[i], station.off)
          /\ \A i \in 1..Len(wb[1].records) : wb[1].records[i].date \notin CachedDays
          /\ Cardinality(MissingDays) = Len(req.missing)
    /\ Answered =>
          /\ Len(req.result.days) = Len(req.dates)
          /\ SeqRange(req.result.days) = EnumeratedDays
          /\ Cardinality(EnumeratedDays) = Len(req.dates)
          /\ req.result.pool = SortBy(req.cached \o (IF req.spawned = 1 THEN wb[1].records ELSE <<>>), "date")
\* a span with a cached day inside it: two new records, three returned
SpanRecordsSkipCachedDay ==
    /\ Rebucketed
    /\ Len(wb[1].records) = 2
    /\ \E d \in CachedDays : wb[1].records[1].date < d /\ d < wb[1].records[2].date
    /\ Len(req.result.days) = 3

\* ---------------------------------------------------------------- C30
\* what the two fetches of the request brought
FetchedPredictions ==
    IF req.httpLog[1] = "status" THEN <<>>
    ELSE NoaaPredictions(station, req.asked[1].begin, req.asked[1].end)
FetchedExtremes ==
    IF req.httpLog[2] = "status" THEN <<>>
    ELSE NoaaExtremes(station, req.asked[2].begin, req.asked[2].end)
\* the places of an entry in the new records
Places(p, field) ==
    {<<k, i>> \in (1..Len(wb[1].records)) \X (1..Len(req.dates) * 2) :
        /\ i <= Len(wb[1].records[k][field])
        /\ wb[1].records[k][field][i] = p}
\* the calendar date of an entry on the wall clock of the station
LocalDay(p) == p.wall \div Day
\* C30: every new record holds only predictions and extremes that fall on the
\* record's date by the station's wall clock, and every fetched prediction
\* and extreme that falls on a missing date is in exactly one new record, the
\* one of its date.
RecordsHoldTheirDay ==
    Rebucketed =>
        /\ \A k \in 1..Len(wb[1].records) :
              /\ \A p \in SeqRange(wb[1].records[k].predictions) :
                    LocalDay(p) = wb[1].records[k].date /\ p \in SeqRange(FetchedPredictions)
              /\ \A e \in SeqRange(wb[1].records[k].extremes) :
                    LocalDay(e) = wb[1].records[k].date /\ e \in SeqRange(FetchedExtremes)
        /\ \A p \in SeqRange(FetchedPredictions) :
              Cardinality(Places(p, "predictions")) = (IF LocalDay(p) \in MissingDays THEN 1 ELSE 0)
        /\ \A e \in SeqRange(FetchedExtremes) :
              Cardinality(Places(e, "extremes")) = (IF LocalDay(e) \in MissingDays THEN 1 ELSE 0)
\* the entries of two missing dates re-bucketed, and the fetched entries of
\* the cached date between them left out
RebucketedAroundCachedDay ==
    /\ Rebucketed
    /\ Len(wb[1].records) = 2
    /\ wb[1].records[1].extremes # <<>>
    /\ wb[1].records[2].extremes # <<>>
    /\ \E e \in SeqRange(FetchedExtremes) : LocalDay(e) \in CachedDays
\* a station west of Greenwich: the entries of two missing dates, each in the
\* record of its local date
RebucketedWestOfGreenwich ==
    /\ Rebucketed
    /\ station.off < 0
    /\ Len(wb[1].records) = 2
    /\ wb[1].records[1].predictions # <<>>
    /\ wb[1].records[2].predictions # <<>>

\* ---------------------------------------------------------------- C31
\* a put of a valid record through the cache service
PutStep == nreq' = nreq + 1 /\ ret'.op = "save" /\ Validate(ret'.rec)
\* C31: a put at time t stamps the LRU entry with expiresAt = t + TTL, and
\* a get of the same key that follows the put at a time before t + TTL, with
\* no clear and no eviction between the two, is an LRU hit.
LruEntryLivesFullTTL ==
    /\ [][PutStep => /\ LruContains(lru', ret'.key)
                     /\ LruPeek(lru', ret'.key).expiresAt = now + GetLRUTTL]_vars
    /\ [][(GetStep /\ ret.op = "save" /\ Validate(ret.rec) /\ ret'.key = ret.key
              /\ now < ret.at + GetLRUTTL) => ret'.lruCase = "hit"]_vars
\* (what the put stamps: the TTL counted from the whole second the put fell in)
LruEntryLivesFromWholeSecond ==
    /\ [][PutStep => /\ LruContains(lru', ret'.key)
                     /\ LruPeek(lru', ret'.key).expiresAt = TruncSecond(now) + GetLRUTTL]_vars
    /\ [][(GetStep /\ ret.op = "save" /\ Validate(ret.rec) /\ ret'.key = ret.key
              /\ now < TruncSecond(ret.at) + GetLRUTTL) => ret'.lruCase = "hit"]_vars
\* a put within a second and a get before the put's time plus the TTL that
\* missed the LRU
EntryExpiredEarly ==
    /\ ret.op = "get"
    /\ ret.lruCase = "expired"
    /\ nreq = 2
    /\ now = Now0 + GetLRUTTL

\* ---------------------------------------------------------------- C32
\* the items a step wrote to the table
Written == {k \in DOMAIN dynamo' : k \notin DOMAIN dynamo \/ dynamo'[k] # dynamo[k]}
\* (a batch is stamped when it is cut, before its first attempt and its
\* backoff sleeps, so the stamp is the clock of the cut, not of the write)
StampedFor(item, seconds) == item.lastUpdated <= Unix(now) /\ item.ttl = item.lastUpdated + seconds
\* C32: every item written to the table, by a put as well as by a batch
\* write, carries lastUpdated = now and TTL = now + the configured TTL of the
\* table (2 days by default).
WritesStampConfiguredTTL ==
    [][\A k \in Written : StampedFor(dynamo'[k], GetDynamoTTLSeconds)]_vars
\* (the batch write stamps the configured TTL, the put a constant 7 days)
WritesStampTheirTTL ==
    [][\A k \in Written :
          IF wb' # wb THEN StampedFor(dynamo'[k], GetDynamoTTLSeconds)
          ELSE StampedFor(dynamo'[k], cacheValidityDays * 24 * 60 * 60)]_vars

\* ---------------------------------------------------------------- C33
Ceil(n, d) == (n + d - 1) \div d
RECURSIVE Concat(_)
Concat(ss) == IF ss = <<>> THEN <<>> ELSE Head(ss) \o Concat(Tail(ss))
KeysOf(records) == [j \in 1..Len(records) |-> DynamoKey(records[j])]
\* every batch was written, and with success: no request failed and there are
\* as many successful requests as batches
AllWritesSucceeded == batch.failures = 0 /\ batch.successes = Len(batch.cuts)
\* C33: a call that returns nil under a positive BatchSize has cut the n
\* records, in input order, into ceil(n / BatchSize) consecutive batches of
\* 1..BatchSize records; when every write succeeded each input record was in
\* exactly one BatchWriteItem request.
BatchesPartitionRecords ==
    (batch.pc = "ok" /\ batch.cfg.BatchSize >= 1) =>
        /\ Len(batch.cuts) = Ceil(Len(batch.records), batch.cfg.BatchSize)
        /\ KeysOf(Concat(batch.cuts)) = KeysOf(batch.records)
        /\ \A c \in 1..Len(batch.cuts) :
              Len(batch.cuts[c]) >= 1 /\ Len(batch.cuts[c]) <= batch.cfg.BatchSize
        /\ AllWritesSucceeded =>
              \A j \in 1..Len(batch.records) : batch.sent[j] = 1 /\ batch.written[j] = 1
\* three records went out in a batch of two and a batch of one
ThreeRecordsInTwoBatches ==
    /\ batch.pc = "ok"
    /\ batch.cfg.BatchSize = 2
    /\ Len(batch.records) = 3
    /\ AllWritesSucceeded
    /\ Len(batch.cuts) = 2 /\ Len(batch.cuts[2]) = 1

\* ---------------------------------------------------------------- C36
\* C36: when SavePredictionsBatch returns nil, every input record was in a
\* BatchWriteItem request that succeeded, whatever MaxBatchRetries is.
NilMeansEveryRecordWritten ==
    batch.pc = "ok" => \A j \in 1..Len(batch.records) : batch.written[j] >= 1
\* (with at least one pass of the retry loop it is so)
NilMeansWrittenWithRetries ==
    (batch.pc = "ok" /\ batch.cfg.MaxBatchRetries >= 1) =>
        \A j \in 1..Len(batch.records) : batch.written[j] >= 1
\* a call that returned nil and sent nothing
NilWithNothingSent ==
    /\ batch.pc = "ok"
    /\ batch.cfg.MaxBatchRetries = 0
    /\ batch.records # <<>>
    /\ \A j \in 1..Len(batch.records) : batch.sent[j] = 0

\* ---------------------------------------------------------------- C37
BatchEnded == batch.pc \in {"ok", "failed", "panic"}
\* C37: SavePredictionsBatch comes to an end for every record list, every
\* BatchSize and every MaxBatchRetries.
BatchCallEnds == <>BatchEnded
\* (it does unless BatchSize is 0 and there is a record to write)
BatchCallEndsUnlessZeroSize ==
    (batch.cfg.BatchSize = 0 /\ batch.records # <<>> /\ Validate(batch.records[Len(batch.records)]))
        \/ <>BatchEnded
\* (it returns unless BatchSize is below 1)
BatchCallReturnsUnderPositiveSize ==
    (batch.cfg.BatchSize >= 1) => <>(batch.pc \in {"ok", "failed"})
\* the batch loop back at its head without having moved
BatchLoopStuck == batch.pc = "loop" /\ batch.i = 0 /\ Len(batch.cuts) > Len(batch.records)
\* a negative BatchSize ends in a slice out of range
BatchPanicked == batch.pc = "panic"

\* ---------------------------------------------------------------- C34
\* C34: a GetPredictions, whether it ends in an LRU hit, a remote hit or a
\* miss, writes nothing to the table: no PutItem, and every item keeps its
\* lastUpdated and its TTL.
ReadsLeaveTableAlone ==
    [][GetStep => ret'.puts = 0 /\ dynamo' = dynamo]_vars
\* (it is so unless the table served the record)
ReadsLeaveTableAloneUnlessRemoteHit ==
    [][(GetStep /\ ~(ret'.err = NoErr /\ ret'.rec # Nil /\ ret'.lruCase # "hit"))
          => dynamo' = dynamo]_vars
\* a read that the table served and that wrote the item back with new stamps
ReadRestampedItem ==
    /\ ret.op = "get" /\ ret.err = NoErr /\ ret.lruCase # "hit" /\ ret.rec # Nil
    /\ ret.puts = 1
    /\ dynamo[ret.key].lastUpdated = Unix(now)
    /\ dynamo[ret.key].ttl = Unix(now) + cacheValidityDays * 24 * 60 * 60

\* ---------------------------------------------------------------- C35
\* the records of a task that the LRU has room for: the last LRUSize of them
Kept(task) == {j \in 1..Len(task.records) : j > Len(task.records) - LRUSize}
InLru(record) ==
    /\ LruContains(lru, DynamoKey(record))
    /\ LruPeek(lru, DynamoKey(record)).data = record
\* a GetPredictions for the day of the record, made now with a table that
\* answers, is an LRU hit without a GetItem
ServedFromLru(record) ==
    LET g == GetPredictions(C, record.stationID, record.date * Day, 0, now, "ok", "ok")
    IN  g.lruCase = "hit" /\ g.gets = 0 /\ g.puts = 0 /\ g.rec = record
\* C35: once a request that fetched missing days has returned, its write-back
\* eventually runs, and from then on the record of each missing day is in
\* the LRU, whether the batch write to the table succeeds or fails; until the
\* entry expires a GetPredictions for that day is an LRU hit that asks the
\* table nothing.
LruEventuallyPopulated ==
    /\ (wb # <<>>) ~> (wb # <<>> /\ wb[1].pc \in {"ok", "failed"})
    /\ [](\A k \in 1..Len(wb) : wb[k].pc # "start" =>
             \A j \in Kept(wb[k]) :
                /\ InLru(wb[k].records[j])
                /\ now < LruPeek(lru, DynamoKey(wb[k].records[j])).expiresAt
                      => ServedFromLru(wb[k].records[j]))
\* the batch write failed and the fetched day is served from the LRU
PopulatedThoughWriteFailed ==
    /\ wb # <<>> /\ wb[1].pc = "failed" /\ wb[1].err = ErrBatch
    /\ wb[1].records # <<>>
    /\ \A j \in Kept(wb[1]) : InLru(wb[1].records[j]) /\ ServedFromLru(wb[1].records[j])

\* ---------------------------------------------------------------- C38
NoTypeCode == station.stationType = "nil"
\* C38: a request for a station whose catalog entry has no station-type code
\* ends with a response or with a returned error, never with a crash.
NoTypeCodeNeverCrashes ==
    (NoTypeCode /\ req.pc = "done") => req.result.kind # "panic"
\* (it does when every day of the range came from the cache, or a fetch failed)
NoTypeCodeCrashesOnlyBuildingRecords ==
    (NoTypeCode /\ req.pc = "done") =>
        (req.result.kind = "panic" <=>
            (req.missing # <<>> /\ req.extFetches = 1 /\ ~HttpFails(req.httpLog[Len(req.httpLog)])))
\* a station without type code answered from cached days
NoTypeCodeAnsweredFromCache == NoTypeCode /\ Answered /\ req.missing = <<>>
\* the request that crashed: both fetches came back
NoTypeCodeCrashed ==
    /\ NoTypeCode /\ req.pc = "done" /\ req.result.kind = "panic"
    /\ req.predFetches = 1 /\ req.extFetches = 1

\* ---------------------------------------------------------------- C39
\* C39: on a series sorted by time, repeated timestamps or not, whenever the
\* two functions interpolate between p1 and p2 the target lies in
\* p1.t < timestamp <= p2.t, and everything they divide by (the difference of
\* the bracket and those of the two Hermite tangents) is strictly positive.
DivisorsArePositive ==
    Interpolated =>
        LET k == interp.knots
            idx == findNearestIndex(k, interp.timestamp)
            ds == Divisors(k, interp.timestamp)
        IN  /\ \A i \in 1..Len(ds) : ds[i] > 0
            /\ (idx > 0 /\ idx < Len(k)) =>
                  /\ k[idx].t < interp.timestamp
                  /\ interp.timestamp <= k[idx + 1].t
                  /\ Len(ds) >= 1
\* an interpolation inside a series with a repeated timestamp on each side of
\* the bracket
InterpolatedBesideTies ==
    /\ Interpolated
    /\ Len(interp.knots) = 3
    /\ interp.knots[1].t = interp.knots[2].t
    /\ interp.knots[2].t < interp.timestamp /\ interp.timestamp <= interp.knots[3].t
    /\ Len(Divisors(interp.knots, interp.timestamp)) = 2

\* ---------------------------------------------------------------- C40
Typed(catalog) == \A i \in 1..Len(catalog) : catalog[i].stationType # "nil"
Measured(catalog) ==
    {[id |-> catalog[i].id,
      distance |-> calculateDistance(pool.lat, pool.lon, catalog[i].lat, catalog[i].lon)] :
     i \in 1..Len(catalog)}
\* every station of the catalog was collected, once, with its distance
CollectedOnce ==
    /\ Len(pool.collected) = Len(pool.catalog)
    /\ {pool.collected[i] : i \in 1..Len(pool.collected)} = Measured(pool.catalog)
\* C40: for every catalog, the empty one included, and under every
\* interleaving of the four workers, FindNearestStations comes to its end
\* having collected each station of the catalog exactly once with its distance.
PoolCollectsEveryStation == <>(pool.pc = "done" /\ CollectedOnce)
\* (it does for a catalog whose stations all have a station type)
PoolCollectsTypedCatalog == Typed(pool.catalog) => <>(pool.pc = "done" /\ CollectedOnce)
\* (no goroutine is left behind, and no channel is written after its close)
PoolEndsClean ==
    /\ pool.pc = "done" =>
          /\ CollectedOnce
          /\ pool.work = <<>> /\ pool.results = <<>>
          /\ \A w \in Workers : pool.workers[w].pc = "done"
          /\ pool.closer = "done"
    /\ pool.resultsClosed => \A w \in Workers : pool.workers[w].pc = "done"
    /\ pool.workClosed => pool.idx > Len(pool.catalog)
\* the collection stopped at a station without station type
PoolPanicked == pool.pc = "panic" /\ Len(pool.collected) < Len(pool.catalog)
\* three stations collected in another order than the catalog's
PoolCollectedOutOfOrder ==
    /\ pool.pc = "done" /\ Len(pool.catalog) = 3
    /\ pool.collected[1].id = pool.catalog[3].id
====
